---- MODULE Spec2Model ----
(***************************************************************************)
(* gnmi-exporter: one device session (GnmiClient) with its receive thread  *)
(* (_GnmiCollector) and watchdog (_WatchDog), the plugin it feeds          *)
(* (BasePlugin / OcInterfaces), the Prometheus collector (PromClient)      *)
(* scraped from the HTTP server thread, and the supervisor (App).          *)
(*                                                                         *)
(* Every `with self._mutex:` block of the plugin, the session and the      *)
(* watchdog contains no blocking call, so each block is one atomic step.   *)
(* The collector mutex is acquired and released by explicit calls around   *)
(* an await, so it is a variable of the model.                             *)
(***************************************************************************)
EXTENDS Integers, Sequences, FiniteSets, TLC

\* ------------------------------------------------------------------ bounds

\* SubscribeResponses the device sends over the whole run.
MaxMsgs == 3
\* watchdog timeout in ticks: scrape_interval * wd_multiplier.
WdTimeout == 2
\* saturation of the count of consecutive DialErrors.
MaxFails == 2
\* SubscribeResponses the device sends over the whole run, in the
\* specification with fairness.
MaxMsgsFair == 2
\* SubscribeResponses the device sends over the whole run, in the
\* specification of the encoding selection.
MaxMsgsEnc == 1

\* plugins registered with the collector (one per device), in the
\* specification of one scrape.
MaxPlugins == 2
\* interfaces, and subinterfaces, a device reports.
MaxSeries == 2

\* notifications a device sends to one plugin over the whole run, in the
\* specification of one plugin.
MaxNotifs == 3
\* the largest Notification.timestamp.
MaxTimestamp == 2

\* slash-separated components of an xpath.
MaxPathLen == 2

\* ------------------------------------------------------------- vocabulary

\* The only plugin GnmiClient.__init__ knows how to load.
PluginNames == {"oc_interfaces"}

\* prefix.target values a device may send: the plugin's target, or none.
Targets == {"oc_interfaces", ""}

\* A Notification carries one update of a counter leaf; its value converts
\* to an integer ("int") or does not ("nan").
Notifications == [target : Targets, val : {"int", "nan"}]

NoNotification == [target |-> "", val |-> ""]

\* SubscribeResponse: oneof {update, sync_response}.
SubscribeResponses ==
    { [kind |-> "update", update |-> n, sync_response |-> FALSE] : n \in Notifications }
    \cup
    { [kind |-> "sync_response", update |-> NoNotification, sync_response |-> b] : b \in BOOLEAN }

NoSr == [kind |-> "none", update |-> NoNotification, sync_response |-> FALSE]

\* A configuration key that the YAML file does not give.
Absent == "<absent>"

\* bypass_msg_routing as the YAML file gives it in device_template or in a
\* device entry: a boolean, or not at all.
RawBypass == {Absent, "true", "false"}

\* str(value) of a YAML boolean, as _parse_raw_cfg stores it.
py_str(raw) == IF raw = "true" THEN "True" ELSE IF raw = "false" THEN "False" ELSE raw

\* bool(s) of a string: true unless the string is empty.
py_bool(s) == s # ""

\* _EncodingTypes: name -> value.
EncodingTypes ==
    [JSON |-> 0, BYTES |-> 1, PROTO |-> 2, ASCII |-> 3, JSON_IETF |-> 4]

EncodingNames == DOMAIN EncodingTypes

EncodingValues == {EncodingTypes[n] : n \in EncodingNames}

PREFERRED_ENCODINGS == <<"PROTO", "JSON", "JSON_IETF", "ASCII">>

\* force_encoding as the YAML file may give it: not at all, the name of an
\* encoding, or a value that names none ("None" is str() of an empty key).
ForceEncodings == {Absent} \cup EncodingNames \cup {"None"}

\* oc_if._DATA_MODEL, the one datamodel of the plugin's GnmiPaths.
DATA_MODEL == "openconfig-interfaces"

\* YANG models a device may list in supported_models.
DeviceModels == {DATA_MODEL, "openconfig-platform"}

\* CapabilityResponse: supported_models (their names) and supported_encodings.
CapabilityResponses ==
    [supported_models : SUBSET DeviceModels, supported_encodings : SUBSET EncodingValues]

\* The responses of a device that speaks JSON only.
JsonCapabilityResponses ==
    {r \in CapabilityResponses : r.supported_encodings = {EncodingTypes["JSON"]}}

\* The responses of a device that supports the plugin's model.
ModelCapabilityResponses ==
    {r \in CapabilityResponses : r.supported_models = {DATA_MODEL}}

NoCaps == [supported_models |-> {}, supported_encodings |-> {-1}]

\* xpath_to_gnmi raised XpathError; it returned no Path yet.
XpathError == [raised |-> TRUE, elem |-> <<>>]

NoPath == [raised |-> FALSE, elem |-> <<>>]

Min(a, b) == IF a < b THEN a ELSE b

VARIABLES
    \* configuration
    cfg_plugins,        \* device_cfg['plugins'], then _GnmiClientConfig.plugins
    device_cfg,         \* App._devices_cfg[0]: bypass_msg_routing, force_encoding
    bypass_msg_routing, \* _GnmiClientConfig.bypass_msg_routing
    force_encoding,     \* _GnmiClientConfig.force_encoding
    g_raw_bypass,       \* bypass_msg_routing of the YAML file: device over template
    \* BasePlugin, per plugin name
    buffer,             \* BasePlugin._buffer
    on_sync,            \* BasePlugin._on_sync
    \* GnmiClient
    plugin_table,       \* GnmiClient._plugin_table (its keys)
    s_pc,               \* position of GnmiClient.run
    exit_flag,          \* GnmiClient._exit
    event,              \* GnmiClient._event
    channel,            \* the grpc channel of the current outer-loop iteration
    selected_encoding,  \* GnmiClient._selected_encoding (the name of the member)
    \* _WatchDog of the current outer-loop iteration
    wd_pc,              \* position of _WatchDog.run
    wd_counter,         \* _WatchDog._counter
    wd_exit,            \* _WatchDog._exit
    wd_event,           \* _WatchDog._event
    \* _GnmiCollector of the current episode
    c_pc,               \* position of _GnmiCollector.run
    c_sr,               \* the response the loop body is handling
    \* PromClient
    plugin_list,        \* PromClient._plugin_list
    mutex,              \* PromClient._mutex
    scr_pc,             \* position of PromClient.collect
    scr_coros,          \* coroutines of coro_list not yet run
    scr_resp,           \* results gathered so far
    \* App
    app_pc,             \* position of the main thread
    devices_list,       \* App._devices_list
    \* environment
    budget,             \* responses the device may still send
    cap_pool,           \* CapabilityResponses the device may give
    \* history
    g_hist,             \* per plugin: notifications appended since the last desync clear
    g_taken,            \* per plugin: notifications handed to a render since then
    g_dropped,          \* per plugin: notifications dropped by desync clears
    g_ticks,            \* watchdog ticks since the last kick (or since creation)
    g_fails,            \* consecutive DialErrors
    g_caps              \* the CapabilityResponse of the current dial attempt, if any

cfg_vars  == <<cfg_plugins, device_cfg, bypass_msg_routing, force_encoding, g_raw_bypass>>
dial_vars == <<selected_encoding, cap_pool, g_caps>>
plug_vars == <<buffer, on_sync>>
sess_vars == <<plugin_table, s_pc, exit_flag, event, channel>>
wd_vars   == <<wd_pc, wd_counter, wd_exit, wd_event>>
col_vars  == <<c_pc, c_sr>>
prom_vars == <<plugin_list, mutex, scr_pc, scr_coros, scr_resp>>
app_vars  == <<app_pc, devices_list>>
hist_vars == <<g_hist, g_taken, g_dropped, g_ticks, g_fails>>

\* PromClient.collect, BasePlugin.checkout and xpath_to_gnmi in detail: their
\* inputs and results are lists, which the program above only counts.
VARIABLES
    \* PromClient, one scrape in detail
    q_pc,               \* position of PromClient.collect
    response,           \* the list asyncio.gather returned
    bundle_table,       \* PromClient._bundle_table, in insertion order
    collected_plugins,  \* PromClient._collected_plugins
    collected_devices,  \* PromClient._collected_devices
    emitted,            \* the families collect() yielded in the last scrape
    \* OcInterfaces, one plugin in detail
    update_list,        \* BasePlugin.update_list
    delete_list,        \* BasePlugin.delete_list
    bundle_list,        \* what fetch_metric_bundles returned last
    tables,             \* the four tables of OcInterfaces and self.bundle_list
    g_quiet,            \* no notification and no sync change since that fetch
    \* xpath_to_gnmi
    xpath,              \* the argument, split into its components
    gnmi_elems          \* the result: Path.elem, or XpathError raised

coll_vars   == <<q_pc, response, bundle_table, collected_plugins, collected_devices, emitted>>
unpack_vars == <<update_list, delete_list, bundle_list, tables, g_quiet>>
path_vars   == <<xpath, gnmi_elems>>
detail_vars == <<coll_vars, unpack_vars, path_vars>>

\* The variables of the threads and of the supervisor.
main_vars == <<cfg_vars, dial_vars, sess_vars, wd_vars, col_vars, prom_vars,
               app_vars, budget, hist_vars>>

vars == <<cfg_vars, dial_vars, plug_vars, sess_vars, wd_vars, col_vars, prom_vars,
          app_vars, budget, hist_vars, detail_vars>>

\* ---------------------------------------------------------------- plugin

\* A set_sync_status that does nothing.
set_sync_status_ignored(b, s, v) == [buffer |-> b, on_sync |-> s]

\* A set_sync_status that clears the buffer on every False, whatever the
\* state it is applied in.
set_sync_status_clears_on_false(b, s, v) ==
    [buffer |-> IF ~v THEN <<>> ELSE b, on_sync |-> v]

\* BasePlugin.set_sync_status: the new (buffer, on_sync) of a plugin.
set_sync_status(b, s, v) ==
    [buffer |-> IF (~v) /\ s THEN <<>> ELSE b, on_sync |-> v]

\* BasePlugin.gnmi_notification_handler: the new buffer.
gnmi_notification_handler(b, msg) == Append(b, msg)

\* A checkout that drains the buffer without testing _on_sync.
checkout_ignoring_sync(b, s) == [nf_buf |-> b, buffer |-> <<>>]

\* A checkout that takes its snapshot and leaves the buffer as it is.
checkout_without_clear(b, s) == [nf_buf |-> IF s THEN b ELSE <<>>, buffer |-> b]

\* BasePlugin.checkout, the locked part: the snapshot and the new buffer.
checkout(b, s) ==
    [nf_buf |-> IF s THEN b ELSE <<>>, buffer |-> IF s THEN <<>> ELSE b]

\* OcInterfaces.fetch_metric_bundles after checkout(): [] when nothing was
\* drained; update_tables raises ValueError on int() of a non-integer value;
\* otherwise the bundle list.
fetch_result(nf_buf) ==
    IF nf_buf = <<>> THEN "empty"
    ELSE IF \E i \in 1..Len(nf_buf) : nf_buf[i].val = "nan" THEN "raised"
    ELSE "bundles"

\* ---------------------------------------------------------- configuration

\* App._parse_raw_cfg, for one key: the device entry is laid over a copy of
\* the template, and every value is stored as str(value).
parse_raw_cfg(tpl, dev) ==
    IF dev # Absent THEN py_str(dev)
    ELSE IF tpl # Absent THEN py_str(tpl)
    ELSE Absent

\* The value of the key in the YAML file once the device entry is laid over
\* the template.
effective_raw(tpl, dev) == IF dev # Absent THEN dev ELSE tpl

\* GnmiClient._parse_config, "if 'bypass_msg_routing' in device_cfg: ...":
\* the field keeps its default (False) when the key is absent.
parse_bypass(cfg) ==
    IF cfg.bypass_msg_routing # Absent THEN py_bool(cfg.bypass_msg_routing) ELSE FALSE

\* GnmiClient._parse_config, "if 'force_encoding' in device_cfg: ...": the
\* field keeps its default ('') when the key is absent.
parse_force_encoding(cfg) ==
    IF cfg.force_encoding # Absent THEN cfg.force_encoding ELSE ""

\* ------------------------------------------------------------------ Init

\* The state after App(raw_cfg): the configuration is parsed, nothing runs.
\* responses: how many SubscribeResponses the device sends; plugins: the
\* plugin sets the file may give; raws, forces: the values it may give to
\* bypass_msg_routing and to force_encoding; pool: the CapabilityResponses
\* the device may give.
InitWith(responses, plugins, raws, forces, pool) ==
    /\ cfg_plugins \in plugins
    /\ \E tpl \in raws, dev \in raws, f \in forces :
        /\ device_cfg = [bypass_msg_routing |-> parse_raw_cfg(tpl, dev),
                         force_encoding |-> f]
        /\ g_raw_bypass = effective_raw(tpl, dev)
    /\ bypass_msg_routing = FALSE
    /\ force_encoding = ""
    /\ selected_encoding = "JSON"
    /\ cap_pool = pool
    /\ g_caps = NoCaps
    /\ buffer = [p \in PluginNames |-> <<>>]
    /\ on_sync = [p \in PluginNames |-> FALSE]
    /\ plugin_table = {}
    /\ s_pc = "new"
    /\ exit_flag = FALSE
    /\ event = FALSE
    /\ channel = "none"
    /\ wd_pc = "new"
    /\ wd_counter = WdTimeout
    /\ wd_exit = FALSE
    /\ wd_event = FALSE
    /\ c_pc = "new"
    /\ c_sr = NoSr
    /\ plugin_list = <<>>
    /\ mutex = "free"
    /\ scr_pc = "idle"
    /\ scr_coros = <<>>
    /\ scr_resp = <<>>
    /\ app_pc = "start"
    /\ devices_list = <<>>
    /\ budget = responses
    /\ g_hist = [p \in PluginNames |-> <<>>]
    /\ g_taken = [p \in PluginNames |-> <<>>]
    /\ g_dropped = [p \in PluginNames |-> 0]
    /\ g_ticks = 0
    /\ g_fails = 0
    /\ q_pc = "idle"
    /\ response = <<>>
    /\ bundle_table = <<>>
    /\ collected_plugins = 0
    /\ collected_devices = 0
    /\ emitted = <<>>
    /\ update_list = <<>>
    /\ delete_list = <<>>
    /\ bundle_list = <<>>
    /\ tables = [iface_table |-> <<>>, subiface_table |-> <<>>,
                 iface_metrics_table |-> <<>>, subiface_metrics_table |-> <<>>,
                 bundle_list |-> <<>>]
    /\ g_quiet = FALSE
    /\ xpath = <<>>
    /\ gnmi_elems = NoPath

\* A device that speaks JSON only, and no force_encoding in the file.
Init == InitWith(MaxMsgs, SUBSET PluginNames, RawBypass, {Absent}, JsonCapabilityResponses)

\* The same program, with a file that does not give bypass_msg_routing, and
\* a device that sends fewer responses and always reports the same
\* capabilities: the plugin's model and JSON.
FairInit ==
    InitWith(MaxMsgsFair, SUBSET PluginNames, {Absent}, {Absent},
             JsonCapabilityResponses \cap ModelCapabilityResponses)

\* The oc_interfaces plugin, no bypass_msg_routing and any force_encoding in
\* the file, and a device that supports the plugin's model and reports any
\* set of encodings, not the same at every dial.
EncInit ==
    InitWith(MaxMsgsEnc, {PluginNames}, {Absent}, ForceEncodings, ModelCapabilityResponses)

\* --------------------------------------------------- session: GnmiClient

\* A routing that broadcasts every notification.
receivers_broadcast(sr) == plugin_table

\* route_gnmi_sr: the plugins whose gnmi_notification_handler gets sr.update.
receivers(sr) ==
    IF bypass_msg_routing THEN plugin_table
    ELSE IF sr.update.target \in plugin_table THEN {sr.update.target}
    ELSE {}

\* "for plugin in self._plugin_table.values(): plugin.set_sync_status(v)".
\* _plugin_table holds at most the one plugin __init__ can load, so the loop
\* is at most one critical section.
BroadcastSync(v) ==
    LET desync(p) == p \in plugin_table /\ on_sync[p] /\ ~v IN
    /\ buffer' = [p \in PluginNames |->
                    IF p \in plugin_table
                    THEN set_sync_status(buffer[p], on_sync[p], v).buffer
                    ELSE buffer[p]]
    /\ on_sync' = [p \in PluginNames |->
                    IF p \in plugin_table
                    THEN set_sync_status(buffer[p], on_sync[p], v).on_sync
                    ELSE on_sync[p]]
    /\ g_hist' = [p \in PluginNames |-> IF desync(p) THEN <<>> ELSE g_hist[p]]
    /\ g_taken' = [p \in PluginNames |-> IF desync(p) THEN <<>> ELSE g_taken[p]]
    /\ g_dropped' = [p \in PluginNames |->
                    IF desync(p) THEN g_dropped[p] + Len(buffer[p]) ELSE g_dropped[p]]

\* A session that gives up after a DialError.
dial_error_gives_up(ex) == "done"

\* The exit test after a DialError back-off: return, or dial again.
dial_error_next(ex) == IF ex THEN "done" ELSE "dial"

\* A cleanup that never tests the exit flag.
cleanup_never_exits(ex) == "open"

\* The exit test that ends the cleanup: break, or the next outer iteration.
cleanup_next(ex) == IF ex THEN "done" ELSE "open"

\* Top of the outer loop: a new channel and a new, not yet started, watchdog.
SessOpen ==
    /\ s_pc = "open"
    /\ s_pc' = "dial"
    /\ channel' = "open"
    /\ wd_pc' = "new"
    /\ wd_counter' = WdTimeout
    /\ wd_exit' = FALSE
    /\ wd_event' = FALSE
    /\ g_ticks' = 0
    /\ UNCHANGED <<detail_vars, cfg_vars, dial_vars, plug_vars, plugin_table, exit_flag, event, col_vars,
                   prom_vars, app_vars, budget, g_hist, g_taken, g_dropped, g_fails>>

\* self._path_list: the datamodels of the GnmiPaths of the loaded plugins.
required_models(table) == IF "oc_interfaces" \in table THEN {DATA_MODEL} ELSE {}

\* A model check that accepts every CapabilityResponse.
models_not_checked(resp, required) == TRUE

\* _check_caps, "Check datamodels support": no required model is missing.
models_supported(resp, required) ==
    \A model \in required : model \in resp.supported_models

\* The preferred encodings the device supports, by position in the tuple.
supported_positions(supported) ==
    {i \in 1..Len(PREFERRED_ENCODINGS) :
        EncodingTypes[PREFERRED_ENCODINGS[i]] \in supported}

\* A selection loop without its break: the last match wins.
pick_encoding_without_break(force, supported, current) ==
    IF force # ""
    THEN IF \E i \in 1..Len(PREFERRED_ENCODINGS) : PREFERRED_ENCODINGS[i] = force
         THEN force ELSE current
    ELSE IF supported_positions(supported) = {} THEN current
         ELSE PREFERRED_ENCODINGS[CHOOSE i \in supported_positions(supported) :
                                    \A j \in supported_positions(supported) : j <= i]

\* _check_caps, "Pick an encoding": the new self._selected_encoding. With
\* force_encoding set, the preferred encoding of that name, if any; without
\* it, the first preferred encoding the device supports, if any; the field
\* is left as it is when the loop assigns nothing.
pick_encoding(force, supported, current) ==
    IF force # ""
    THEN IF \E i \in 1..Len(PREFERRED_ENCODINGS) : PREFERRED_ENCODINGS[i] = force
         THEN force ELSE current
    ELSE IF supported_positions(supported) = {} THEN current
         ELSE PREFERRED_ENCODINGS[CHOOSE i \in supported_positions(supported) :
                                    \A j \in supported_positions(supported) : i <= j]

\* self._check_caps(stub): the Capabilities RPC fails, or the response lacks
\* a required model (DialError both), or an encoding is picked.
SessCheckCaps ==
    /\ s_pc = "dial"
    /\ \/ /\ s_pc' = "backoff"
          /\ g_fails' = Min(MaxFails, g_fails + 1)
          /\ UNCHANGED <<selected_encoding, g_caps>>
       \/ \E resp \in cap_pool :
            IF models_supported(resp, required_models(plugin_table))
            THEN /\ s_pc' = "subscribe"
                 /\ selected_encoding' =
                        pick_encoding(force_encoding, resp.supported_encodings,
                                      selected_encoding)
                 /\ g_caps' = resp
                 /\ g_fails' = g_fails
            ELSE /\ s_pc' = "backoff"
                 /\ g_fails' = Min(MaxFails, g_fails + 1)
                 /\ g_caps' = resp
                 /\ UNCHANGED selected_encoding
    /\ UNCHANGED <<detail_vars, cfg_vars, cap_pool, plug_vars, plugin_table, exit_flag, event, channel,
                   wd_vars, col_vars, prom_vars, app_vars, budget, g_hist, g_taken,
                   g_dropped, g_ticks>>

\* A _subscribe that sends the request of oc_interfaces, loaded or not.
subscribe_requests_of_known_plugins(table) == << [target |-> "oc_interfaces"] >>

\* req_list of _subscribe: one SubscribeRequest per GnmiPaths of _path_list,
\* which holds the paths of the loaded plugins; its SubscriptionList has the
\* target of the plugin as prefix.target.
subscribe_requests(table) ==
    IF "oc_interfaces" \in table THEN << [target |-> "oc_interfaces"] >> ELSE <<>>

\* self._subscribe(stub): the SubscriptionLists are built with
\* self._selected_encoding and the Subscribe RPC is issued; it returns the
\* response stream, or fails (DialError).
SessSubscribe ==
    /\ s_pc = "subscribe"
    /\ \E ok \in BOOLEAN :
        /\ s_pc' = IF ok THEN "start" ELSE "backoff"
        /\ g_fails' = IF ok THEN 0 ELSE Min(MaxFails, g_fails + 1)
    /\ g_caps' = NoCaps
    /\ UNCHANGED <<detail_vars, cfg_vars, selected_encoding, cap_pool, plug_vars, plugin_table,
                   exit_flag, event, channel, wd_vars, col_vars, prom_vars, app_vars,
                   budget, g_hist, g_taken, g_dropped, g_ticks>>

\* self._event.wait(timeout=_RECONNECT_TIMEOUT) returns: the event is set,
\* or the timeout has passed.
SessBackoffWait ==
    /\ s_pc = "backoff"
    /\ s_pc' = "backoff_check"
    /\ UNCHANGED <<detail_vars, cfg_vars, dial_vars, plug_vars, plugin_table, exit_flag, event, channel, wd_vars,
                   col_vars, prom_vars, app_vars, budget, hist_vars>>

\* "with self._mutex: if self._exit: channel.close(); return / else: continue"
SessBackoffCheck ==
    /\ s_pc = "backoff_check"
    /\ s_pc' = dial_error_next(exit_flag)
    /\ channel' = IF dial_error_next(exit_flag) = "done" THEN "closed" ELSE channel
    /\ g_caps' = NoCaps
    /\ UNCHANGED <<detail_vars, cfg_vars, selected_encoding, cap_pool, plug_vars, plugin_table, exit_flag, event, wd_vars,
                   col_vars, prom_vars, app_vars, budget, hist_vars>>

\* wd.start(); gnmi_collector.start()
SessStart ==
    /\ s_pc = "start"
    /\ s_pc' = "wait"
    /\ wd_pc' = "check"
    /\ c_pc' = "recv"
    /\ c_sr' = NoSr
    /\ UNCHANGED <<detail_vars, cfg_vars, dial_vars, plug_vars, plugin_table, exit_flag, event, channel,
                   wd_counter, wd_exit, wd_event, prom_vars, app_vars, budget, hist_vars>>

\* self._event.wait() returns.
SessWake ==
    /\ s_pc = "wait"
    /\ event
    /\ s_pc' = "sync"
    /\ UNCHANGED <<detail_vars, cfg_vars, dial_vars, plug_vars, plugin_table, exit_flag, event, channel, wd_vars,
                   col_vars, prom_vars, app_vars, budget, hist_vars>>

\* "for plugin in self._plugin_table.values(): plugin.set_sync_status(False)"
SessCleanSync ==
    /\ s_pc = "sync"
    /\ s_pc' = "clear"
    /\ BroadcastSync(FALSE)
    /\ UNCHANGED <<detail_vars, cfg_vars, dial_vars, plugin_table, exit_flag, event, channel, wd_vars,
                   col_vars, prom_vars, app_vars, budget, g_ticks, g_fails>>

\* A cleanup that leaves the wake event as it found it.
event_left_as_is(ev) == ev

\* threading.Event.clear(): the new flag.
event_clear(ev) == FALSE

\* self._event.clear()
SessEventClear ==
    /\ s_pc = "clear"
    /\ s_pc' = "wd_stop"
    /\ event' = event_clear(event)
    /\ UNCHANGED <<detail_vars, cfg_vars, dial_vars, plug_vars, plugin_table, exit_flag, channel, wd_vars,
                   col_vars, prom_vars, app_vars, budget, hist_vars>>

\* wd.stop(): the flag under the watchdog mutex, then its event.
SessWdStop ==
    /\ s_pc = "wd_stop"
    /\ s_pc' = "wd_join"
    /\ wd_exit' = TRUE
    /\ wd_event' = TRUE
    /\ UNCHANGED <<detail_vars, cfg_vars, dial_vars, plug_vars, plugin_table, exit_flag, event, channel,
                   wd_pc, wd_counter, col_vars, prom_vars, app_vars, budget, hist_vars>>

\* wd.stop(): self.join()
SessWdJoin ==
    /\ s_pc = "wd_join"
    /\ wd_pc = "done"
    /\ s_pc' = "chan_close"
    /\ UNCHANGED <<detail_vars, cfg_vars, dial_vars, plug_vars, plugin_table, exit_flag, event, channel, wd_vars,
                   col_vars, prom_vars, app_vars, budget, hist_vars>>

\* channel.close()
SessChanClose ==
    /\ s_pc = "chan_close"
    /\ s_pc' = "col_join"
    /\ channel' = "closed"
    /\ UNCHANGED <<detail_vars, cfg_vars, dial_vars, plug_vars, plugin_table, exit_flag, event, wd_vars,
                   col_vars, prom_vars, app_vars, budget, hist_vars>>

\* A cleanup that does not wait for the receive thread.
SessColJoin_without_join ==
    /\ s_pc = "col_join"
    /\ s_pc' = "check_exit"
    /\ UNCHANGED <<detail_vars, cfg_vars, dial_vars, plug_vars, plugin_table, exit_flag, event, channel, wd_vars,
                   col_vars, prom_vars, app_vars, budget, hist_vars>>

\* gnmi_collector.wait_for_stop()
SessColJoin ==
    /\ s_pc = "col_join"
    /\ c_pc = "done"
    /\ s_pc' = "check_exit"
    /\ UNCHANGED <<detail_vars, cfg_vars, dial_vars, plug_vars, plugin_table, exit_flag, event, channel, wd_vars,
                   col_vars, prom_vars, app_vars, budget, hist_vars>>

\* "with self._mutex: if self._exit: break"
SessCheckExit ==
    /\ s_pc = "check_exit"
    /\ s_pc' = cleanup_next(exit_flag)
    /\ UNCHANGED <<detail_vars, cfg_vars, dial_vars, plug_vars, plugin_table, exit_flag, event, channel, wd_vars,
                   col_vars, prom_vars, app_vars, budget, hist_vars>>

SessionNext ==
    \/ SessOpen
    \/ SessCheckCaps
    \/ SessSubscribe
    \/ SessBackoffWait
    \/ SessBackoffCheck
    \/ SessStart
    \/ SessWake
    \/ SessCleanSync
    \/ SessEventClear
    \/ SessWdStop
    \/ SessWdJoin
    \/ SessChanClose
    \/ SessColJoin
    \/ SessCheckExit

\* ------------------------------------------------------------ _WatchDog

\* _WatchDog.kick: the new counter.
kick(counter) == WdTimeout

\* A loop test that leaves the countdown one tick early.
wd_check_one_early(counter) == IF counter > 1 THEN "tick" ELSE "fire"

\* The loop test "while self._counter:", read without the mutex.
wd_check(counter) == IF counter # 0 THEN "tick" ELSE "fire"

\* A tick that does not count down.
wd_tick_without_countdown(counter, ex) ==
    [pc |-> IF ex THEN "done" ELSE "check", counter |-> counter]

\* The locked body of a tick: return on _exit, else count down.
wd_tick(counter, ex) ==
    [pc |-> IF ex THEN "done" ELSE "check",
     counter |-> IF ex THEN counter ELSE counter - 1]

WdCheck ==
    /\ wd_pc = "check"
    /\ wd_pc' = wd_check(wd_counter)
    /\ UNCHANGED <<detail_vars, cfg_vars, dial_vars, plug_vars, sess_vars, wd_counter, wd_exit, wd_event,
                   col_vars, prom_vars, app_vars, budget, hist_vars>>

\* self._event.wait(1) returns, the locked body runs, self._event.clear().
WdTick ==
    /\ wd_pc = "tick"
    /\ wd_pc' = wd_tick(wd_counter, wd_exit).pc
    /\ wd_counter' = wd_tick(wd_counter, wd_exit).counter
    /\ wd_event' = IF wd_exit THEN wd_event ELSE FALSE
    /\ g_ticks' = IF wd_exit THEN g_ticks ELSE Min(WdTimeout, g_ticks + 1)
    /\ UNCHANGED <<detail_vars, cfg_vars, dial_vars, plug_vars, sess_vars, wd_exit, col_vars, prom_vars,
                   app_vars, budget, g_hist, g_taken, g_dropped, g_fails>>

\* self._fire(), which is GnmiClient._event.set
WdFire ==
    /\ wd_pc = "fire"
    /\ wd_pc' = "done"
    /\ event' = TRUE
    /\ UNCHANGED <<detail_vars, cfg_vars, dial_vars, plug_vars, plugin_table, s_pc, exit_flag, channel,
                   wd_counter, wd_exit, wd_event, col_vars, prom_vars, app_vars,
                   budget, hist_vars>>

WdNext ==
    \/ WdCheck
    \/ WdTick
    \/ WdFire

\* ------------------------------------------------------- _GnmiCollector

\* "for sr in self._gnmi_stream: self._keepalive()": the next response is
\* taken from the stream and the watchdog is kicked. The device answers the
\* requests of the stream: it sends nothing on a stream without a request.
ColRecv ==
    /\ c_pc = "recv"
    /\ channel = "open"
    /\ subscribe_requests(plugin_table) # <<>>
    /\ budget > 0
    /\ \E sr \in SubscribeResponses : c_sr' = sr
    /\ budget' = budget - 1
    /\ wd_counter' = kick(wd_counter)
    /\ g_ticks' = 0
    /\ c_pc' = "route"
    /\ UNCHANGED <<detail_vars, cfg_vars, dial_vars, plug_vars, sess_vars, wd_pc, wd_exit, wd_event,
                   prom_vars, app_vars, g_hist, g_taken, g_dropped, g_fails>>

\* self._callback(sr), which is GnmiClient.route_gnmi_sr
ColRoute ==
    /\ c_pc = "route"
    /\ c_pc' = "recv"
    /\ c_sr' = NoSr
    /\ \/ /\ c_sr.kind = "update"
          /\ buffer' = [p \in PluginNames |->
                          IF p \in receivers(c_sr)
                          THEN gnmi_notification_handler(buffer[p], c_sr.update)
                          ELSE buffer[p]]
          /\ g_hist' = [p \in PluginNames |->
                          IF p \in receivers(c_sr)
                          THEN Append(g_hist[p], c_sr.update)
                          ELSE g_hist[p]]
          /\ UNCHANGED <<on_sync, g_taken, g_dropped>>
       \/ /\ c_sr.kind = "sync_response"
          /\ BroadcastSync(c_sr.sync_response)
    /\ UNCHANGED <<detail_vars, cfg_vars, dial_vars, sess_vars, wd_vars, prom_vars, app_vars, budget,
                   g_ticks, g_fails>>

\* The iterator raises grpc.RpcError once the channel is closed.
ColStreamError ==
    /\ c_pc = "recv"
    /\ channel = "closed"
    /\ c_pc' = "done"
    /\ UNCHANGED <<detail_vars, cfg_vars, dial_vars, plug_vars, sess_vars, wd_vars, c_sr, prom_vars,
                   app_vars, budget, hist_vars>>

\* The device ends the stream (StopIteration or an RpcError of its own).
ColStreamEnd ==
    /\ c_pc = "recv"
    /\ channel = "open"
    /\ c_pc' = "done"
    /\ UNCHANGED <<detail_vars, cfg_vars, dial_vars, plug_vars, sess_vars, wd_vars, c_sr, prom_vars,
                   app_vars, budget, hist_vars>>

ColNext ==
    \/ ColRecv
    \/ ColRoute
    \/ ColStreamError
    \/ ColStreamEnd

\* ----------------------------------------------------------- PromClient

\* _query_plugins after the gather: an exception raised by a render leaves
\* the function before self._mutex.release().
mutex_after_gather(resp) ==
    IF \E i \in 1..Len(resp) : resp[i] = "raised" THEN "held" ELSE "free"

\* collect -> _query_plugins: the counters are reset and the plugin list is
\* tested, without the mutex.
ScrapeStart ==
    /\ app_pc \notin {"start", "exited"}
    /\ scr_pc = "idle"
    /\ scr_pc' = IF plugin_list # <<>> THEN "acquire" ELSE "stats"
    /\ UNCHANGED <<detail_vars, cfg_vars, dial_vars, plug_vars, sess_vars, wd_vars, col_vars, plugin_list,
                   mutex, scr_coros, scr_resp, app_vars, budget, hist_vars>>

\* self._mutex.acquire() and the loop that builds coro_list.
ScrapeAcquire ==
    /\ app_pc # "exited"
    /\ scr_pc = "acquire"
    /\ mutex = "free"
    /\ mutex' = "held"
    /\ scr_coros' = plugin_list
    /\ scr_resp' = <<>>
    /\ scr_pc' = "gather"
    /\ UNCHANGED <<detail_vars, cfg_vars, dial_vars, plug_vars, sess_vars, wd_vars, col_vars, plugin_list,
                   app_vars, budget, hist_vars>>

\* asyncio.gather runs the next coroutine: OcInterfaces.fetch_metric_bundles.
ScrapeFetch ==
    /\ app_pc # "exited"
    /\ scr_pc = "gather"
    /\ scr_coros # <<>>
    /\ LET p == Head(scr_coros)
           r == checkout(buffer[p], on_sync[p]) IN
        /\ buffer' = [buffer EXCEPT ![p] = r.buffer]
        /\ g_taken' = [g_taken EXCEPT ![p] = g_taken[p] \o r.nf_buf]
        /\ scr_resp' = Append(scr_resp, fetch_result(r.nf_buf))
    /\ scr_coros' = Tail(scr_coros)
    /\ UNCHANGED <<detail_vars, cfg_vars, dial_vars, on_sync, sess_vars, wd_vars, col_vars, plugin_list,
                   mutex, scr_pc, app_vars, budget, g_hist, g_dropped, g_ticks, g_fails>>

\* The await returns: the responses, and self._mutex.release(); or the
\* exception of a render, which ends collect().
ScrapeGathered ==
    /\ app_pc # "exited"
    /\ scr_pc = "gather"
    /\ scr_coros = <<>>
    /\ mutex' = mutex_after_gather(scr_resp)
    /\ scr_pc' = IF mutex_after_gather(scr_resp) = "free" THEN "stats" ELSE "idle"
    /\ scr_resp' = IF mutex_after_gather(scr_resp) = "free" THEN scr_resp ELSE <<>>
    /\ UNCHANGED <<detail_vars, cfg_vars, dial_vars, plug_vars, sess_vars, wd_vars, col_vars, plugin_list,
                   scr_coros, app_vars, budget, hist_vars>>

\* The merge, _compute_stats, the export and the clearing of the table.
ScrapeStats ==
    /\ app_pc # "exited"
    /\ scr_pc = "stats"
    /\ scr_pc' = "idle"
    /\ scr_resp' = <<>>
    /\ UNCHANGED <<detail_vars, cfg_vars, dial_vars, plug_vars, sess_vars, wd_vars, col_vars, plugin_list,
                   mutex, scr_coros, app_vars, budget, hist_vars>>

ScrapeProgress ==
    \/ ScrapeAcquire
    \/ ScrapeFetch
    \/ ScrapeGathered
    \/ ScrapeStats

\* ------------------------------------------------------------------ App

\* App.start: the signal handlers, PromClient(...) and PromClient.start().
AppStartProm ==
    /\ app_pc = "start"
    /\ app_pc' = "load"
    /\ UNCHANGED <<detail_vars, cfg_vars, dial_vars, plug_vars, sess_vars, wd_vars, col_vars, prom_vars,
                   devices_list, budget, hist_vars>>

\* GnmiClient(...): _parse_config reads the device configuration; each
\* configured plugin the constructor knows is built and registers itself
\* (PromClient.register_plugin, under the mutex).
AppNewDevice ==
    /\ app_pc = "load"
    /\ mutex = "free"
    /\ plugin_table' = cfg_plugins \cap PluginNames
    /\ plugin_list' = IF "oc_interfaces" \in cfg_plugins
                      THEN Append(plugin_list, "oc_interfaces")
                      ELSE plugin_list
    /\ bypass_msg_routing' = parse_bypass(device_cfg)
    /\ force_encoding' = parse_force_encoding(device_cfg)
    /\ app_pc' = "dev_start"
    /\ UNCHANGED <<detail_vars, cfg_plugins, device_cfg, g_raw_bypass, dial_vars, plug_vars, s_pc,
                   exit_flag, event, channel, wd_vars, col_vars, mutex, scr_pc,
                   scr_coros, scr_resp, devices_list, budget, hist_vars>>

\* new_dev.start(); self._devices_list.append(new_dev); then signal.pause()
AppStartDevice ==
    /\ app_pc = "dev_start"
    /\ s_pc' = "open"
    /\ devices_list' = Append(devices_list, "device")
    /\ app_pc' = "pause"
    /\ UNCHANGED <<detail_vars, cfg_vars, dial_vars, plug_vars, plugin_table, exit_flag, event, channel,
                   wd_vars, col_vars, prom_vars, budget, hist_vars>>

\* SIGINT or SIGTERM arrives while the main thread is in signal.pause().
AppSignal ==
    /\ app_pc = "pause"
    /\ app_pc' = "unregister"
    /\ UNCHANGED <<detail_vars, cfg_vars, dial_vars, plug_vars, sess_vars, wd_vars, col_vars, prom_vars,
                   devices_list, budget, hist_vars>>

\* App.close: self._prom_client.unregister_all()
AppUnregister ==
    /\ app_pc = "unregister"
    /\ mutex = "free"
    /\ plugin_list' = <<>>
    /\ app_pc' = "close"
    /\ UNCHANGED <<detail_vars, cfg_vars, dial_vars, plug_vars, sess_vars, wd_vars, col_vars, mutex, scr_pc,
                   scr_coros, scr_resp, devices_list, budget, hist_vars>>

\* GnmiClient.close: "with self._mutex: self._exit = True"
AppCloseExit ==
    /\ app_pc = "close"
    /\ exit_flag' = TRUE
    /\ app_pc' = "close_event"
    /\ UNCHANGED <<detail_vars, cfg_vars, dial_vars, plug_vars, plugin_table, s_pc, event, channel, wd_vars,
                   col_vars, prom_vars, devices_list, budget, hist_vars>>

\* GnmiClient.close: self._event.set()
AppCloseEvent ==
    /\ app_pc = "close_event"
    /\ event' = TRUE
    /\ app_pc' = "close_join"
    /\ UNCHANGED <<detail_vars, cfg_vars, dial_vars, plug_vars, plugin_table, s_pc, exit_flag, channel, wd_vars,
                   col_vars, prom_vars, devices_list, budget, hist_vars>>

\* GnmiClient.close: self.join(); it was the last device of the list, the
\* handler returns, signal.pause() returns and the process exits.
AppCloseJoin ==
    /\ app_pc = "close_join"
    /\ s_pc = "done"
    /\ app_pc' = "exited"
    /\ UNCHANGED <<detail_vars, cfg_vars, dial_vars, plug_vars, sess_vars, wd_vars, col_vars, prom_vars,
                   devices_list, budget, hist_vars>>

AppStartup ==
    \/ AppStartProm
    \/ AppNewDevice
    \/ AppStartDevice

AppShutdown ==
    \/ AppUnregister
    \/ AppCloseExit
    \/ AppCloseEvent
    \/ AppCloseJoin

\* -------------------------------------------- PromClient.collect in detail

\* dev_name of the configured devices; two devices may be given one name.
DeviceNames == {"r1", "r2"}

\* Interface names, and the full names of the subinterfaces.
IfNames == <<"eth1", "eth2", "eth3", "eth4">>
SubIfNames == <<"eth1.0", "eth2.0", "eth3.0", "eth4.0">>

\* GnmiMetric(): no label value, val 0.
DefaultMetric == [labelval |-> <<>>, val |-> 0]

\* build_bundle_list: _PLUGIN_LABEL_SET + _IFACE_LABEL_SET, and
\* _PLUGIN_LABEL_SET + _SUBIFACE_LABEL_SET, each label.replace('-', '_').
IfaceBundleLabels ==
    <<"instance_name", "data_model", "device",
      "name", "mtu", "description", "ifindex", "admin_status", "oper_status">>
SubifaceBundleLabels ==
    <<"instance_name", "data_model", "device",
      "name", "index", "mtu", "description", "ifindex", "admin_status", "oper_status">>

\* build_metrics for the n interfaces of iface_table: the plugin labels, then
\* one get_entry per label of _IFACE_LABEL_SET ('' unless an update gave it).
iface_metrics(d, n) ==
    [k \in 1..n |-> [labelval |-> <<"default", DATA_MODEL, d, IfNames[k], "", "", "", "", "">>,
                     val |-> k]]

\* build_metrics for the n subinterfaces of subiface_table.
subiface_metrics(d, n) ==
    [k \in 1..n |-> [labelval |-> <<"default", DATA_MODEL, d, SubIfNames[k], "0", "", "", "", "", "">>,
                     val |-> k]]

\* MetricTable.get_metrics: the metrics of the name, or one GnmiMetric() when
\* the table has no such name (no interface was found).
get_metrics(metrics) == IF metrics = <<>> THEN <<DefaultMetric>> ELSE metrics

\* build_bundle_list, for one name of _IFACE_METRIC_SET and one of
\* _SUBIFACE_METRIC_SET: COUNTER bundles of the device.
build_bundle_list(d, n_if, n_sub) ==
    << [type |-> "COUNTER", device_name |-> d, metric_name |-> "gnmi_iface_in_octets",
        labelset |-> IfaceBundleLabels, metrics |-> get_metrics(iface_metrics(d, n_if))],
       [type |-> "COUNTER", device_name |-> d, metric_name |-> "gnmi_subiface_in_octets",
        labelset |-> SubifaceBundleLabels, metrics |-> get_metrics(subiface_metrics(d, n_sub))] >>

\* What fetch_metric_bundles of the plugin of device d may return: [] or its
\* bundle list.
PluginResults(d) ==
    {<<>>} \cup {build_bundle_list(d, n, m) : n \in 0..MaxSeries, m \in 0..MaxSeries}

\* What asyncio.gather may return: one result per registered plugin, in
\* registration order.
Responses ==
    UNION { [1..n -> UNION {PluginResults(d) : d \in DeviceNames}] : n \in 0..MaxPlugins }

\* An is_valid that does not look at the metrics.
is_valid_without_metrics(b) ==
    /\ b.device_name # ""
    /\ b.metric_name # ""
    /\ b.type # "UNKNOWN"

\* GnmiMetricBundle.is_valid.
is_valid(b) ==
    /\ b.device_name # ""
    /\ b.metric_name # ""
    /\ b.type # "UNKNOWN"
    /\ \A i \in 1..Len(b.metrics) : Len(b.metrics[i].labelval) = Len(b.labelset)

\* "Check if the plugin returned something": a non-empty list whose first
\* element is a valid bundle.
plugin_returned(plugin) == plugin # <<>> /\ is_valid(plugin[1])

\* _bundle_table is a dict: a list of (key, bundle) in insertion order.
table_keys(t) == {t[i].key : i \in 1..Len(t)}

table_index(t, k) == CHOOSE i \in 1..Len(t) : t[i].key = k

\* self._bundle_table[k] = b.
table_set(t, k, b) ==
    IF k \in table_keys(t) THEN [t EXCEPT ![table_index(t, k)].bundle = b]
    ELSE Append(t, [key |-> k, bundle |-> b])

\* A merge that puts the metrics of the later bundle first.
merge_bundle_prepend(t, b) ==
    IF b.metric_name \notin table_keys(t) THEN table_set(t, b.metric_name, b)
    ELSE [t EXCEPT ![table_index(t, b.metric_name)].bundle.metrics = b.metrics \o @]

\* "if bundle.metric_name not in self._bundle_table: ... else: ...extend(...)".
merge_bundle(t, b) ==
    IF b.metric_name \notin table_keys(t) THEN table_set(t, b.metric_name, b)
    ELSE [t EXCEPT ![table_index(t, b.metric_name)].bundle.metrics = @ \o b.metrics]

\* "for bundle in plugin:", from the table and the device_names set st holds.
RECURSIVE merge_plugin(_, _)
merge_plugin(st, plugin) ==
    IF plugin = <<>> THEN st
    ELSE LET b == Head(plugin)
         IN merge_plugin(IF is_valid(b)
                         THEN [table |-> merge_bundle(st.table, b),
                               device_names |-> st.device_names \cup {b.device_name}]
                         ELSE st,
                         Tail(plugin))

\* A count of the plugins that returned a list, empty or not.
count_plugin_any_list(n, plugin) == n + 1

\* "self._collected_plugins += 1" for a plugin that returned something.
count_plugin(n, plugin) == IF plugin_returned(plugin) THEN n + 1 ELSE n

\* "for plugin in response:", from the table and the two counters st holds.
\* device_names is a new set for every plugin that returned something, and
\* _collected_devices is assigned its size at the end of every such pass.
RECURSIVE walk_response(_, _)
walk_response(st, resp) ==
    IF resp = <<>> THEN st
    ELSE LET plugin == Head(resp)
             m == merge_plugin([table |-> st.table, device_names |-> {}], plugin)
         IN walk_response(IF plugin_returned(plugin)
                          THEN [table |-> m.table,
                                collected_plugins |-> count_plugin(st.collected_plugins, plugin),
                                collected_devices |-> Cardinality(m.device_names)]
                          ELSE [st EXCEPT !.collected_plugins = count_plugin(@, plugin)],
                          Tail(resp))

\* A self-statistic: a GAUGE bundle with one metric, labelled by instance_name.
stat_bundle(name, v) ==
    [type |-> "GAUGE", device_name |-> "", metric_name |-> name,
     labelset |-> <<"instance_name">>,
     metrics |-> << [labelval |-> <<"default">>, val |-> v] >>]

\* A collected_metrics that does not count itself.
collected_metrics_without_self(t) == Len(t)

\* "val=len(self._bundle_table) + 1,  # +1 is this metric".
collected_metrics_val(t) == Len(t) + 1

\* "for metric in self._bundle_table.values(): collected_series += len(...)".
RECURSIVE collected_series_val(_)
collected_series_val(t) ==
    IF t = <<>> THEN 0 ELSE Len(Head(t).bundle.metrics) + collected_series_val(Tail(t))

\* PromClient._compute_stats: the table with the five self-statistics,
\* n_plugins being len(self._plugin_list).
compute_stats(t, n_plugins, n_devices, n_collected) ==
    LET t1 == table_set(t, "configured_devices", stat_bundle("gnmi_configured_devices", n_plugins))
        t2 == table_set(t1, "collected_devices", stat_bundle("gnmi_collected_devices", n_devices))
        t3 == table_set(t2, "collected_plugins", stat_bundle("gnmi_collected_plugins", n_collected))
        t4 == table_set(t3, "collected_metrics",
                        stat_bundle("gnmi_collected_metrics", collected_metrics_val(t3)))
    IN table_set(t4, "collected_series",
                 stat_bundle("gnmi_collected_series", collected_series_val(t4)))

\* CounterMetricFamily / GaugeMetricFamily of a bundle, with one sample per
\* metric (add_metric).
metric_family(b) ==
    [kind |-> b.type, name |-> b.metric_name, labels |-> b.labelset,
     samples |-> [i \in 1..Len(b.metrics) |->
                    [labels |-> b.metrics[i].labelval, value |-> b.metrics[i].val]]]

\* The export loop of collect(): one family per bundle of the table that is
\* not UNKNOWN, in the order of the table.
export(t) ==
    LET known == SelectSeq(t, LAMBDA e : e.bundle.type # "UNKNOWN")
    IN [i \in 1..Len(known) |-> metric_family(known[i].bundle)]

\* A scrape that returns with the table as it is.
bundle_table_kept(t) == t

\* "self._bundle_table.clear()".
bundle_table_clear(t) == <<>>

\* collect() calls _query_plugins: the counters restart from zero, the
\* plugins are queried and their response is walked.
QueryPlugins ==
    /\ q_pc = "idle"
    /\ \E r \in Responses :
        LET w == walk_response([table |-> bundle_table, collected_plugins |-> 0,
                                collected_devices |-> 0], r)
        IN /\ response' = r
           /\ bundle_table' = w.table
           /\ collected_plugins' = w.collected_plugins
           /\ collected_devices' = w.collected_devices
    /\ q_pc' = "stats"
    /\ UNCHANGED <<main_vars, plug_vars, emitted, unpack_vars, path_vars>>

\* collect() calls _compute_stats.
ComputeStats ==
    /\ q_pc = "stats"
    /\ bundle_table' = compute_stats(bundle_table, Len(response), collected_devices,
                                     collected_plugins)
    /\ q_pc' = "export"
    /\ UNCHANGED <<main_vars, plug_vars, response, collected_plugins, collected_devices,
                   emitted, unpack_vars, path_vars>>

\* The export loop runs to its end and the table is cleared.
Export ==
    /\ q_pc = "export"
    /\ emitted' = export(bundle_table)
    /\ bundle_table' = bundle_table_clear(bundle_table)
    /\ q_pc' = "done"
    /\ UNCHANGED <<main_vars, plug_vars, response, collected_plugins, collected_devices,
                   unpack_vars, path_vars>>

\* The caller of collect() has rendered the families; the response and the
\* families are garbage.
Rendered ==
    /\ q_pc = "done"
    /\ response' = <<>>
    /\ emitted' = <<>>
    /\ q_pc' = "idle"
    /\ UNCHANGED <<main_vars, plug_vars, bundle_table, collected_plugins, collected_devices,
                   unpack_vars, path_vars>>

\* ------------------------------------------------ one plugin in detail

\* _PATHS_TO_SUBSCRIBE: the two containers the plugin subscribes to, as the
\* names of their path elements.
IfaceStatePath == <<"interfaces", "interface", "state">>
SubifaceStatePath == <<"interfaces", "interface", "subinterfaces", "subinterface", "state">>

\* The leaves the updates of UpdateLists reach: one of _IFACE_LABEL_SET and
\* _SUBIFACE_LABEL_SET, two of _IFACE_METRIC_SET and _SUBIFACE_METRIC_SET.
LabelSet == <<"name">>
MetricSet == <<"in-octets", "out-octets">>

\* An Update of a leaf under /interfaces/interface[name=...]/state: its path,
\* the two path keys get_path_key is asked for (no element 3 of such a path
\* has an 'index' key) and its value.
IfaceUpdate(name, leaf, val) ==
    [path |-> IfaceStatePath \o leaf, name |-> name, index |-> "not_available",
     val |-> val]

\* An Update of a leaf under
\* /interfaces/interface[name=...]/subinterfaces/subinterface[index=...]/state.
SubifaceUpdate(name, index, leaf, val) ==
    [path |-> SubifaceStatePath \o leaf, name |-> name, index |-> index, val |-> val]

\* Notification.update and Notification.delete as a device fills them: the
\* name leaf of eth1; a counter of eth1; counters of eth2, of eth1 and of
\* the subinterface eth1.0; the name leaf of eth1.0. The path of a deleted
\* leaf.
UpdateLists ==
    { << >>,
      << IfaceUpdate("eth1", <<"name">>, "eth1") >>,
      << IfaceUpdate("eth1", <<"counters", "in-octets">>, "1") >>,
      << IfaceUpdate("eth2", <<"counters", "in-octets">>, "2"),
         IfaceUpdate("eth1", <<"counters", "in-octets">>, "3"),
         SubifaceUpdate("eth1", "0", <<"counters", "in-octets">>, "4") >>,
      << SubifaceUpdate("eth1", "0", <<"name">>, "eth1.0") >> }

DeleteLists == { << >>, << "in-octets" >> }

\* A Notification with its timestamp; it updates or deletes something. The
\* device deletes a leaf in a notification of its own, or in one that also
\* updates the counter of eth1.
TimedNotifications ==
    { nf \in [timestamp : 1..MaxTimestamp, update : UpdateLists, delete : DeleteLists] :
        /\ nf.update # <<>> \/ nf.delete # <<>>
        /\ nf.delete # <<>> =>
              nf.update \in {<<>>, << IfaceUpdate("eth1", <<"counters", "in-octets">>, "1") >>} }

\* "for nf_upd in nf.update: self.update_list.append(g_update.new_upd_msg(nf_upd))",
\* for every notification of nf_buf: a GnmiUpdate has the timestamp of its
\* notification.
RECURSIVE unpack_updates(_)
unpack_updates(nf_buf) ==
    IF nf_buf = <<>> THEN <<>>
    ELSE [i \in 1..Len(Head(nf_buf).update) |->
            [timestamp |-> Head(nf_buf).timestamp,
             path |-> Head(nf_buf).update[i].path,
             name |-> Head(nf_buf).update[i].name,
             index |-> Head(nf_buf).update[i].index,
             val |-> Head(nf_buf).update[i].val]]
         \o unpack_updates(Tail(nf_buf))

\* "for nf_del in nf.delete: self.delete_list.append(g_delete.new_del_msg(nf_del))".
RECURSIVE unpack_deletes(_)
unpack_deletes(nf_buf) ==
    IF nf_buf = <<>> THEN <<>>
    ELSE [i \in 1..Len(Head(nf_buf).delete) |->
            [timestamp |-> Head(nf_buf).timestamp, path |-> Head(nf_buf).delete[i]]]
         \o unpack_deletes(Tail(nf_buf))

\* An insertion that puts the message before those of the same timestamp.
RECURSIVE sort_insert_before_equal(_, _)
sort_insert_before_equal(sorted, msg) ==
    IF sorted = <<>> THEN <<msg>>
    ELSE IF Head(sorted).timestamp < msg.timestamp
         THEN <<Head(sorted)>> \o sort_insert_before_equal(Tail(sorted), msg)
         ELSE <<msg>> \o sorted

\* list.sort is stable: a message goes after every message of the sorted
\* part whose timestamp is not greater than its own.
RECURSIVE sort_insert(_, _)
sort_insert(sorted, msg) ==
    IF sorted = <<>> THEN <<msg>>
    ELSE IF Head(sorted).timestamp <= msg.timestamp
         THEN <<Head(sorted)>> \o sort_insert(Tail(sorted), msg)
         ELSE <<msg>> \o sorted

\* A sort that leaves the list in its order of arrival.
sort_by_timestamp_unsorted(list) == list

\* "list.sort(key=lambda msg: msg.timestamp)".
RECURSIVE sort_by_timestamp(_)
sort_by_timestamp(list) ==
    IF list = <<>> THEN <<>>
    ELSE sort_insert(sort_by_timestamp(SubSeq(list, 1, Len(list) - 1)), list[Len(list)])

\* int(update.val) of the values the updates of UpdateLists carry.
py_int(val) ==
    CASE val = "1" -> 1 [] val = "2" -> 2 [] val = "3" -> 3 [] val = "4" -> 4

\* The tables of OcInterfaces and self.bundle_list, empty. A table is a dict:
\* here the sequence of its items, in insertion order.
EmptyTables ==
    [iface_table |-> <<>>, subiface_table |-> <<>>,
     iface_metrics_table |-> <<>>, subiface_metrics_table |-> <<>>,
     bundle_list |-> <<>>]

\* A render that keeps what the render before left in the tables.
clear_all_tables_skipped(t) == t

\* clear_all_tables
clear_all_tables(t) == EmptyTables

\* add_table_entry: the record of an interface, '' for each label and 0 for
\* each metric; nothing if the table has the interface.
add_table_entry(table, if_full_name) ==
    IF if_full_name \in table_keys(table) THEN table
    ELSE Append(table,
                [key |-> if_full_name,
                 entry |-> [e \in {LabelSet[i] : i \in 1..Len(LabelSet)}
                                  \cup {MetricSet[i] : i \in 1..Len(MetricSet)} |->
                              IF \E i \in 1..Len(LabelSet) : LabelSet[i] = e
                              THEN "" ELSE 0]])

\* update_table_entry: the entry of the interface is set; the KeyError of an
\* interface the table does not have is caught.
update_table_entry(table, if_full_name, entry_name, entry_val) ==
    IF if_full_name \in table_keys(table)
    THEN [table EXCEPT ![table_index(table, if_full_name)].entry[entry_name] = entry_val]
    ELSE table

\* re.match(prefix, ''.join(path)): the path starts with the prefix.
re_match(prefix, path) ==
    Len(path) >= Len(prefix) /\ SubSeq(path, 1, Len(prefix)) = prefix

\* build_tables: an entry of the interface table for each update of a
\* state/name leaf of an interface, an entry of the subinterface table for
\* each update of a state/name leaf of a subinterface; the full name of a
\* subinterface is name '.' index.
RECURSIVE build_tables(_, _)
build_tables(t, ul) ==
    IF ul = <<>> THEN t
    ELSE LET u == Head(ul)
             t1 == IF u.path = IfaceStatePath \o <<"name">>
                   THEN [t EXCEPT !.iface_table = add_table_entry(@, u.name)]
                   ELSE t
             t2 == IF u.path = SubifaceStatePath \o <<"name">>
                   THEN [t1 EXCEPT !.subiface_table =
                                        add_table_entry(@, <<u.name, u.index>>)]
                   ELSE t1
         IN build_tables(t2, Tail(ul))

\* The value update_tables stores for a leaf: str(update.val) for a label (the
\* interface name for the 'name' of a subinterface), int(update.val) for a
\* metric.
entry_value(u, leaf, subiface) ==
    IF \E i \in 1..Len(LabelSet) : LabelSet[i] = leaf
    THEN IF subiface /\ leaf = "name" THEN u.name ELSE py_str(u.val)
    ELSE py_int(u.val)

\* update_tables: the updates in the order of update_list; an update under
\* one of the two containers whose last path element is a known label or
\* metric sets that entry of its interface.
RECURSIVE update_tables(_, _)
update_tables(t, ul) ==
    IF ul = <<>> THEN t
    ELSE LET u == Head(ul)
             leaf == u.path[Len(u.path)]
             known == \/ \E i \in 1..Len(LabelSet) : LabelSet[i] = leaf
                      \/ \E i \in 1..Len(MetricSet) : MetricSet[i] = leaf
             t1 == IF re_match(IfaceStatePath, u.path) /\ known
                   THEN [t EXCEPT !.iface_table =
                            update_table_entry(@, u.name, leaf, entry_value(u, leaf, FALSE))]
                   ELSE t
             t2 == IF re_match(SubifaceStatePath, u.path) /\ known
                   THEN [t1 EXCEPT !.subiface_table =
                            update_table_entry(@, <<u.name, u.index>>, leaf,
                                               entry_value(u, leaf, TRUE))]
                   ELSE t1
         IN update_tables(t2, Tail(ul))

\* MetricTable.add_metric
add_metric(table, name, metric) ==
    IF name \in table_keys(table)
    THEN [table EXCEPT ![table_index(table, name)].metrics = Append(@, metric)]
    ELSE Append(table, [key |-> name, metrics |-> <<metric>>])

\* build_metrics, the inner loop: the GnmiMetric of each interface of the
\* table, from the i-th on, for one metric name. Its label values are the
\* labels of the interface (after those of the plugin, which are constant).
RECURSIVE add_metrics(_, _, _, _)
add_metrics(metrics_table, table, name, i) ==
    IF i > Len(table) THEN metrics_table
    ELSE add_metrics(
            add_metric(metrics_table, name,
                       [labelval |-> [l \in 1..Len(LabelSet) |-> table[i].entry[LabelSet[l]]],
                        val |-> table[i].entry[name]]),
            table, name, i + 1)

\* build_metrics, the outer loop: the metric names from the k-th on.
RECURSIVE build_metric_table(_, _, _)
build_metric_table(metrics_table, table, k) ==
    IF k > Len(MetricSet) THEN metrics_table
    ELSE build_metric_table(add_metrics(metrics_table, table, MetricSet[k], 1), table, k + 1)

\* build_metrics
build_metrics(t) ==
    [t EXCEPT !.iface_metrics_table = build_metric_table(@, t.iface_table, 1),
              !.subiface_metrics_table = build_metric_table(@, t.subiface_table, 1)]

\* MetricTable.table[name], empty when the table has no such name.
table_metrics(table, name) ==
    IF name \in table_keys(table) THEN table[table_index(table, name)].metrics ELSE <<>>

\* OcInterfaces.build_bundle_list: one bundle per metric name for the
\* interfaces, then one per metric name for the subinterfaces, appended to
\* self.bundle_list.
bundle_list_built(t) ==
    [t EXCEPT !.bundle_list =
        @ \o [k \in 1..Len(MetricSet) |->
                [metric_name |-> <<"iface", MetricSet[k]>>,
                 metrics |-> get_metrics(table_metrics(t.iface_metrics_table, MetricSet[k]))]]
          \o [k \in 1..Len(MetricSet) |->
                [metric_name |-> <<"subiface", MetricSet[k]>>,
                 metrics |-> get_metrics(table_metrics(t.subiface_metrics_table,
                                                       MetricSet[k]))]]]

\* fetch_metric_bundles, given the update list checkout() left: the tables
\* after it, and the list it returns ([] when update_list is empty).
fetch_metric_bundles(t, ul) ==
    IF ul = <<>> THEN [tables |-> clear_all_tables(t), bundles |-> <<>>]
    ELSE LET r == bundle_list_built(build_metrics(
                      update_tables(build_tables(clear_all_tables(t), ul), ul)))
         IN [tables |-> r, bundles |-> r.bundle_list]

\* The receive thread hands a notification to the plugin.
PlugNotify ==
    /\ budget > 0
    /\ budget' = budget - 1
    /\ \E p \in PluginNames, nf \in TimedNotifications :
          buffer' = [buffer EXCEPT ![p] = gnmi_notification_handler(buffer[p], nf)]
    /\ g_quiet' = FALSE
    /\ UNCHANGED <<cfg_vars, dial_vars, sess_vars, wd_vars, col_vars, prom_vars, app_vars,
                   hist_vars, on_sync, coll_vars, update_list, delete_list, bundle_list, tables,
                   path_vars>>

\* The session applies set_sync_status(v) to the plugin.
PlugSetSync ==
    /\ \E p \in PluginNames, v \in BOOLEAN :
          LET r == set_sync_status(buffer[p], on_sync[p], v)
          IN /\ buffer' = [buffer EXCEPT ![p] = r.buffer]
             /\ on_sync' = [on_sync EXCEPT ![p] = r.on_sync]
             /\ g_quiet' = (g_quiet /\ v = on_sync[p])
    /\ UNCHANGED <<main_vars, coll_vars, update_list, delete_list, bundle_list, tables,
                   path_vars>>

\* A scrape calls fetch_metric_bundles: clear_all_tables, checkout (the
\* snapshot, the unpacking and the two sorts), the tables and the bundles.
PlugFetch ==
    /\ \E p \in PluginNames :
          LET r == checkout(buffer[p], on_sync[p])
          IN /\ buffer' = [buffer EXCEPT ![p] = r.buffer]
             /\ update_list' = sort_by_timestamp(unpack_updates(r.nf_buf))
             /\ delete_list' = sort_by_timestamp(unpack_deletes(r.nf_buf))
    /\ bundle_list' = fetch_metric_bundles(tables, update_list').bundles
    /\ tables' = fetch_metric_bundles(tables, update_list').tables
    /\ g_quiet' = TRUE
    /\ UNCHANGED <<main_vars, on_sync, coll_vars, path_vars>>

\* ------------------------------------------------------- xpath_to_gnmi

\* The characters \D does not match.
Digits == {"0", "1", "2", "3", "4", "5", "6", "7", "8", "9"}

\* [key=value] fragments, each a key and a value spelled character by
\* character, and the lists of fragments a component may carry.
Fragments ==
    [key : { <<"i", "d">>, <<"k">> }, value : { <<"x">>, <<"1">> }]

FragmentLists ==
    {<<>>} \cup {<<f>> : f \in Fragments} \cup {<<f, g>> : f \in Fragments, g \in Fragments}

\* The words re.split gives for an xpath without leading and trailing '/':
\* a name and the fragments that follow it. No word for '' and for '/'.
Words == [name : {"a", "b"}, keys : FragmentLists]

Xpaths == UNION { [1..n -> Words] : n \in 0..MaxPathLen }

has_digit(str) == \E i \in 1..Len(str) : str[i] \in Digits

\* _RE_PATH_COMPONENT.search(word) for a word with fragments: after '[', \w
\* and \D+ must reach an '=': that of the first fragment when the rest of its
\* key is not empty and has no digit, or that of the second when nothing up
\* to it has a digit; .* takes the rest up to the last ']'.
re_path_component(word) ==
    /\ ~has_digit(Tail(word.keys[1].key))
    /\ \/ Len(word.keys[1].key) >= 2
       \/ /\ Len(word.keys) >= 2
          /\ ~has_digit(word.keys[1].value)
          /\ ~has_digit(word.keys[2].key)

\* tmp_key[k] = v on a dict held as a set of (key, value) pairs.
dict_set(d, k, v) == {e \in d : e[1] # k} \cup {<<k, v>>}

\* tmp_key after the first n fragments of the word.
RECURSIVE tmp_key(_, _)
tmp_key(word, n) ==
    IF n = 0 THEN {}
    ELSE dict_set(tmp_key(word, n - 1), word.keys[n].key, word.keys[n].value)

\* The elements the loop body appends for a word that matched: one PathElem
\* with no key for a word without fragments; otherwise one PathElem per
\* fragment re.findall gives, each with the keys read so far (the append is
\* inside "for x in re.findall(...)").
elems_of_word(word) ==
    IF word.keys = <<>> THEN << [name |-> word.name, key |-> {}] >>
    ELSE [n \in 1..Len(word.keys) |-> [name |-> word.name, key |-> tmp_key(word, n)]]

RECURSIVE elems_of_words(_)
elems_of_words(words) ==
    IF words = <<>> THEN <<>>
    ELSE elems_of_word(Head(words)) \o elems_of_words(Tail(words))

\* xpath_to_gnmi: Path.elem of the result, or XpathError for a blank xpath
\* and for a word the pattern does not match.
xpath_to_gnmi(words) ==
    IF words = <<>> THEN XpathError
    ELSE IF \E i \in 1..Len(words) :
                words[i].keys # <<>> /\ ~re_path_component(words[i])
         THEN XpathError
         ELSE [raised |-> FALSE, elem |-> elems_of_words(words)]

\* A caller passes an xpath and gets the Path or the XpathError.
XpathCall ==
    /\ gnmi_elems = NoPath
    /\ \E x \in Xpaths :
          /\ xpath' = x
          /\ gnmi_elems' = xpath_to_gnmi(x)
    /\ UNCHANGED <<main_vars, plug_vars, coll_vars, unpack_vars>>

\* The caller is done with the result.
XpathReturn ==
    /\ gnmi_elems # NoPath
    /\ xpath' = <<>>
    /\ gnmi_elems' = NoPath
    /\ UNCHANGED <<main_vars, plug_vars, coll_vars, unpack_vars>>

\* ------------------------------------------------------ specifications

Next ==
    \/ SessionNext
    \/ WdNext
    \/ ColNext
    \/ ScrapeStart
    \/ ScrapeProgress
    \/ AppStartup
    \/ AppSignal
    \/ AppShutdown

Spec == Init /\ [][Next]_vars

\* Every thread that can take a step of its own code eventually takes it.
\* The main thread waits for the collector mutex in register_plugin and
\* unregister_all: it gets the mutex if the mutex is free again and again
\* (strong fairness), so that scrapes following one another do not starve it.
\* No fairness for what the outside decides: a response arriving, the device
\* ending the stream, a scrape arriving, a signal arriving.
Fairness ==
    /\ WF_vars(SessionNext)
    /\ WF_vars(WdNext)
    /\ WF_vars(ColRoute)
    /\ WF_vars(ColStreamError)
    /\ WF_vars(ScrapeProgress)
    /\ SF_vars(AppStartup)
    /\ SF_vars(AppShutdown)

FairSpec == FairInit /\ [][Next]_vars /\ Fairness

\* The same program, for the selection of the encoding.
EncSpec == EncInit /\ [][Next]_vars

\* One collector and its scrapes one after the other, whatever the plugins
\* return.
CollectNext ==
    \/ QueryPlugins
    \/ ComputeStats
    \/ Export
    \/ Rendered

CollectSpec == FairInit /\ [][CollectNext]_vars

\* One plugin between its session and the collector: notifications, sync
\* changes and fetches in any order.
PlugInit ==
    InitWith(MaxNotifs, {PluginNames}, {Absent}, {Absent},
             JsonCapabilityResponses \cap ModelCapabilityResponses)

PlugNext ==
    \/ PlugNotify
    \/ PlugSetSync
    \/ PlugFetch

PlugSpec == PlugInit /\ [][PlugNext]_vars

\* xpath_to_gnmi applied to one xpath after the other.
PathNext ==
    \/ XpathCall
    \/ XpathReturn

PathSpec == FairInit /\ [][PathNext]_vars

\* ---------------------------------------------------------------- claims

\* The step that applies set_sync_status(v) to the plugins of the session:
\* the cleanup of GnmiClient.run (v = FALSE) or the routing of a
\* sync_response (v = its value).
SetSyncStep(v) ==
    \/ s_pc = "sync" /\ s_pc' = "clear" /\ v = FALSE
    \/ c_pc = "route" /\ c_pc' = "recv" /\ c_sr.kind = "sync_response"
       /\ v = c_sr.sync_response

\* C1: set_sync_status(false) applied while on_sync is true empties the
\* buffer and clears the flag in one step; every other transition writes the
\* flag only and leaves the buffer as it was.
C1_SyncTransition ==
    [][\A v \in BOOLEAN : SetSyncStep(v) =>
         \A p \in plugin_table :
            /\ on_sync'[p] = v
            /\ buffer'[p] = IF on_sync[p] /\ ~v THEN <<>> ELSE buffer[p]]_vars

\* C1 witness: a desync has dropped buffered notifications, and the plugin
\* is out of sync with an empty buffer.
C1_Witness ==
    \E p \in plugin_table :
        g_dropped[p] > 0 /\ ~on_sync[p] /\ buffer[p] = <<>> /\ s_pc = "clear"

\* The step in which the scrape runs fetch_metric_bundles of the plugin at
\* the head of the coroutine list.
FetchStep == scr_pc = "gather" /\ scr_coros # <<>> /\ scr_coros' = Tail(scr_coros)

\* C2: fetch_metric_bundles of a plugin whose on_sync is false returns the
\* empty list and leaves the notification buffer as it was.
C2_FetchOutOfSync ==
    [][FetchStep =>
         LET p == Head(scr_coros) IN
            ~on_sync[p] =>
                /\ scr_resp' = Append(scr_resp, "empty")
                /\ buffer'[p] = buffer[p]]_vars

\* C2 witness: a fetch has returned [] for an out-of-sync plugin whose
\* buffer still holds notifications.
C2_Witness ==
    \E p \in plugin_table :
        /\ scr_pc = "gather" /\ scr_coros = <<>> /\ scr_resp = <<"empty">>
        /\ ~on_sync[p] /\ buffer[p] # <<>>

\* C3: the notifications appended to a plugin since its last desync are
\* exactly, in order and each once, those handed to checkouts followed by
\* those still in the buffer: none is lost, none is drained twice, and what
\* arrives after a checkout's snapshot waits in the buffer for the next one.
C3_ExactlyOnce ==
    \A p \in PluginNames : g_hist[p] = g_taken[p] \o buffer[p]

\* C3 witness: an in-sync plugin of which one checkout has taken a
\* notification while a later notification waits for the next checkout.
C3_Witness ==
    \E p \in plugin_table :
        on_sync[p] /\ g_taken[p] # <<>> /\ buffer[p] # <<>> /\ scr_pc = "idle"

\* C4 as claimed: once the cleanup of an episode is complete (plugins
\* desynced, channel closed, receive thread joined) every plugin buffer is
\* empty.
C4_Original ==
    s_pc = "check_exit" => \A p \in plugin_table : buffer[p] = <<>>

\* C5 as claimed: the expiry handler is never invoked while fewer than
\* watchdog_timeout ticks have passed since the last inbound response.
C5_Original ==
    [][(wd_pc = "fire" /\ wd_pc' = "done") => g_ticks = WdTimeout]_vars

\* C5 amended: every inbound response resets the countdown to the full
\* timeout before it is routed; the watchdog leaves its countdown loop to
\* expire exactly when, at its loop test, watchdog_timeout ticks have passed
\* since the last response (or since its creation); having left the loop it
\* invokes the handler, whatever arrives in between.
C5_WatchdogExpiry ==
    [][/\ (c_pc = "recv" /\ c_pc' = "route") => wd_counter' = WdTimeout
       /\ (wd_pc = "check" /\ wd_pc' = "fire") => g_ticks = WdTimeout
       /\ (wd_pc = "check" /\ wd_pc' = "tick") => g_ticks < WdTimeout
       /\ (wd_pc = "fire" /\ wd_pc' # "fire") => (wd_pc' = "done" /\ event')]_vars

\* C5 witness: the watchdog has expired in STREAMING after a response had
\* been received and routed in the same episode.
C5_Witness ==
    /\ wd_pc = "done" /\ ~wd_exit /\ event /\ s_pc = "wait"
    /\ g_ticks = WdTimeout /\ budget < MaxMsgs /\ c_pc = "recv"

\* C6: a session waiting in STREAMING whose stream goes silent or ends, and
\* on which close() is never called, eventually finishes its cleanup and
\* starts the next dial attempt.
C6_SilentStreamRecovers ==
    (s_pc = "wait" /\ ~exit_flag) ~> (s_pc = "open" \/ exit_flag)

\* C6 witness: the session is back at the top of its loop after an episode
\* that the watchdog ended, with no close() requested.
C6_Witness ==
    s_pc = "open" /\ wd_pc = "done" /\ ~exit_flag /\ app_pc = "pause"

\* C7: the session thread ends only when close() has been requested; a
\* failed dial leads to the back-off, and the back-off without a close()
\* request leads to the next dial, whatever the number of failures so far.
C7_RetryUntilClose ==
    [][/\ (s_pc # "done" /\ s_pc' = "done") => exit_flag
       /\ (s_pc \in {"dial", "subscribe"} /\ s_pc' \notin {"dial", "subscribe", "start"})
            => s_pc' = "backoff"
       /\ (s_pc = "backoff_check" /\ s_pc' # "backoff_check" /\ ~exit_flag)
            => s_pc' = "dial"]_vars

\* C7 witness: the session dials again after MaxFails consecutive DialErrors.
C7_Witness ==
    s_pc = "dial" /\ g_fails = MaxFails /\ ~exit_flag

\* C8: once close() is called it eventually returns, and when it has
\* returned the session thread, its receive thread and its watchdog thread
\* have all ended.
C8_CloseTerminates ==
    /\ (app_pc = "close") ~> (app_pc = "exited")
    /\ [](app_pc = "exited" =>
            /\ s_pc = "done"
            /\ wd_pc \in {"new", "done"}
            /\ c_pc \in {"new", "done"})

\* C8 witness: close() has returned for a session that was streaming.
C8_Witness ==
    app_pc = "exited" /\ s_pc = "done" /\ wd_pc = "done" /\ c_pc = "done"

\* C9 as claimed: the handler unregisters the plugins before it closes a
\* session, the shutdown always completes, and a scrape that starts after
\* the unregistration queries no plugin.
C9_Original ==
    /\ [](exit_flag => plugin_list = <<>>)
    /\ (app_pc = "unregister") ~> (app_pc = "exited")
    /\ [][(app_pc \in {"close", "close_event", "close_join"}
            /\ scr_pc = "idle" /\ scr_pc' # "idle") => scr_pc' = "stats"]_vars

\* C10 as claimed: while the scrape awaits the plugins' results it does not
\* hold the plugin-list mutex.
C10_Original ==
    scr_pc = "gather" => mutex = "free"

\* C11 as claimed: every scrape ends by emitting the self-statistics, also
\* when a plugin's fetch_metric_bundles fails, and leaves the collector free
\* to serve the next scrape.
C11_Original ==
    [][(scr_pc # "idle" /\ scr_pc' = "idle") =>
            (scr_pc = "stats" /\ mutex' = "free")]_vars

\* C12 as claimed: no update of the drained batch, whatever is wrong with
\* it, makes fetch_metric_bundles of the openconfig-interfaces plugin fail.
C12_Original ==
    [][FetchStep => scr_resp'[Len(scr_resp')] # "raised"]_vars

\* The step in which route_gnmi_sr handles a response of the given kind.
RouteStep(kind) == c_pc = "route" /\ c_pc' = "recv" /\ c_sr.kind = kind

\* C13: a notification is appended, once, to the buffer of every loaded
\* plugin when bypass routing is enabled, else to the buffer of the loaded
\* plugin its prefix.target names, else to none; no other buffer changes.
C13_Routing ==
    [][RouteStep("update") =>
         LET expected ==
                IF bypass_msg_routing THEN plugin_table
                ELSE IF c_sr.update.target \in plugin_table THEN {c_sr.update.target}
                ELSE {}
         IN \A p \in PluginNames :
                buffer'[p] = IF p \in expected
                             THEN Append(buffer[p], c_sr.update)
                             ELSE buffer[p]]_vars

\* C13 witness: with bypass routing enabled, a notification with no target
\* is in the buffer of the loaded plugin.
C13_Witness ==
    /\ bypass_msg_routing
    /\ \E p \in plugin_table : \E i \in 1..Len(buffer[p]) : buffer[p][i].target = ""

\* C14 as claimed: bypass routing is in effect exactly when the YAML file
\* (device entry over device_template) sets bypass_msg_routing to true; with
\* the key absent or false, a notification whose target names no loaded
\* plugin reaches no buffer.
C14_Original ==
    [][RouteStep("update") =>
         /\ bypass_msg_routing = (g_raw_bypass = "true")
         /\ (g_raw_bypass # "true" /\ c_sr.update.target \notin plugin_table)
                => buffer' = buffer]_vars

\* C15: a sync_response with value v sets the sync flag of every plugin of
\* the session to v, with bypass routing enabled or not, and appends nothing
\* to any buffer.
C15_SyncBroadcast ==
    [][RouteStep("sync_response") =>
         \A p \in PluginNames :
            /\ p \in plugin_table => on_sync'[p] = c_sr.sync_response
            /\ buffer'[p] \in {buffer[p], <<>>}
            /\ g_hist'[p] \in {g_hist[p], <<>>}]_vars

\* C15 witness: without bypass routing, a sync_response(true) has put the
\* loaded plugin in sync.
C15_Witness ==
    /\ ~bypass_msg_routing
    /\ \E p \in plugin_table : on_sync[p]
    /\ c_pc = "recv" /\ s_pc = "wait"

\* The models the loaded plugins need: openconfig-interfaces for oc_interfaces.
NeededModels == IF "oc_interfaces" \in plugin_table THEN {"openconfig-interfaces"} ELSE {}

\* C16: Subscribe is issued only after a CapabilityResponse of the same
\* attempt that lists every model of every loaded plugin; a failed
\* Capabilities RPC or a missing model ends the attempt in the back-off,
\* with no Subscribe; the watchdog and the receive loop are started only
\* after a Subscribe that succeeded.
C16_CapsBeforeSubscribe ==
    [][/\ (s_pc = "dial" /\ s_pc' # "dial") =>
            \/ s_pc' = "subscribe" /\ g_caps' # NoCaps
                    /\ NeededModels \subseteq g_caps'.supported_models
            \/ s_pc' = "backoff"
                    /\ (g_caps' = NoCaps \/ ~(NeededModels \subseteq g_caps'.supported_models))
       /\ (s_pc = "subscribe" /\ s_pc' # "subscribe") =>
            (g_caps # NoCaps /\ NeededModels \subseteq g_caps.supported_models)
       /\ (s_pc # "start" /\ s_pc' = "start") => s_pc = "subscribe"
       /\ ((wd_pc = "new" /\ wd_pc' # "new") \/ (c_pc # "recv" /\ c_pc' = "recv"))
            => (s_pc = "start" \/ c_pc = "route")
       /\ (s_pc \in {"dial", "subscribe"} /\ s_pc' = "backoff")
            => (wd_pc' = "new" /\ c_pc' \in {"new", "done"})]_vars

\* C16 witness: a dial attempt is in its back-off after a CapabilityResponse
\* that lacks the model of the loaded plugin; no thread was started.
C16_Witness ==
    /\ s_pc = "backoff" /\ "oc_interfaces" \in plugin_table
    /\ g_caps # NoCaps /\ DATA_MODEL \notin g_caps.supported_models
    /\ wd_pc = "new" /\ c_pc = "new"

\* The preferred encoding that comes first in [PROTO, JSON, JSON_IETF,
\* ASCII] among those the device reports, "" if it reports none of them.
FirstPreferred(supported) ==
    IF EncodingTypes["PROTO"] \in supported THEN "PROTO"
    ELSE IF EncodingTypes["JSON"] \in supported THEN "JSON"
    ELSE IF EncodingTypes["JSON_IETF"] \in supported THEN "JSON_IETF"
    ELSE IF EncodingTypes["ASCII"] \in supported THEN "ASCII"
    ELSE ""

\* The step in which _check_caps returns without a DialError.
CapsPassStep == s_pc = "dial" /\ s_pc' = "subscribe"

\* C17: with force_encoding unset, a capability check that passes selects
\* the first of [PROTO, JSON, JSON_IETF, ASCII] that the device reports.
C17_FirstPreferred ==
    [][(CapsPassStep /\ force_encoding = ""
            /\ FirstPreferred(g_caps'.supported_encodings) # "")
          => selected_encoding' = FirstPreferred(g_caps'.supported_encodings)]_vars

\* C17 witness: in an attempt that follows a DialError the device reports
\* {JSON, JSON_IETF}, and JSON is selected.
C17_Witness ==
    /\ s_pc = "subscribe" /\ force_encoding = "" /\ g_fails > 0
    /\ g_caps.supported_encodings = {EncodingTypes["JSON"], EncodingTypes["JSON_IETF"]}
    /\ selected_encoding = "JSON"

\* C18 as claimed: with force_encoding unset, a Subscribe that follows a
\* CapabilityResponse with none of the preferred encodings uses JSON,
\* whatever an earlier attempt had selected.
C18_Original ==
    [][(s_pc = "subscribe" /\ s_pc' # "subscribe" /\ force_encoding = ""
            /\ FirstPreferred(g_caps.supported_encodings) = "")
          => selected_encoding = "JSON"]_vars

\* C19 as claimed: a force_encoding that names one of [PROTO, JSON,
\* JSON_IETF, ASCII] is selected whatever the device reports; with any other
\* value set, the first preferred encoding the device reports is selected.
C19_Original ==
    [][(CapsPassStep /\ force_encoding # "") =>
         IF force_encoding \in {"PROTO", "JSON", "JSON_IETF", "ASCII"}
         THEN selected_encoding' = force_encoding
         ELSE FirstPreferred(g_caps'.supported_encodings) # ""
                => selected_encoding' = FirstPreferred(g_caps'.supported_encodings)]_vars

\* C20: whenever the session is in the back-off wait and close() has not
\* been requested its wake event is clear, and a back-off wait that returns
\* on the event, before the reconnect timeout, returns after a close().
C20_FullBackoff ==
    [][/\ (s_pc' = "backoff" /\ ~exit_flag') => ~event'
       /\ (s_pc = "backoff" /\ s_pc' = "backoff_check" /\ event) => exit_flag]_vars

\* C20 witness: a dial attempt fails after an episode that the watchdog
\* ended: the session is in the back-off wait, no close() requested, and its
\* event is clear.
C20_Witness ==
    /\ s_pc = "backoff" /\ ~exit_flag /\ ~event
    /\ wd_pc = "new" /\ c_pc = "done" /\ app_pc = "pause"

\* The valid bundles of the plugins that returned something, in the order of
\* the response and, within a plugin, of its list.
RECURSIVE AcceptedBundles(_)
AcceptedBundles(resp) ==
    IF resp = <<>> THEN <<>>
    ELSE (IF Head(resp) # <<>> /\ is_valid(Head(resp)[1])
          THEN SelectSeq(Head(resp), is_valid) ELSE <<>>)
         \o AcceptedBundles(Tail(resp))

\* The samples of the bundles of bs named n, one bundle after the other.
RECURSIVE SamplesNamed(_, _)
SamplesNamed(bs, n) ==
    IF bs = <<>> THEN <<>>
    ELSE (IF Head(bs).metric_name = n
          THEN [i \in 1..Len(Head(bs).metrics) |->
                  [labels |-> Head(bs).metrics[i].labelval, value |-> Head(bs).metrics[i].val]]
          ELSE <<>>)
         \o SamplesNamed(Tail(bs), n)

\* The positions, among the families the scrape yielded, of those named n.
Families(n) == {i \in 1..Len(emitted) : emitted[i].name = n}

\* The value of the one sample of the self-statistic named n.
Gauge(n) == emitted[CHOOSE i \in Families(n) : TRUE].samples[1].value

\* The metric names of the accepted bundles of the scrape.
AcceptedNames ==
    {AcceptedBundles(response)[i].metric_name : i \in 1..Len(AcceptedBundles(response))}

\* C21: for every metric_name of the bundles accepted in a scrape, the
\* scrape yields exactly one family of that name, and its series are those of
\* the accepted bundles of that name, in the order of plugin registration and
\* then of each plugin's list.
C21_MergedFamily ==
    q_pc = "done" =>
        \A n \in AcceptedNames :
            /\ Cardinality(Families(n)) = 1
            /\ \A f \in Families(n) :
                  emitted[f].samples = SamplesNamed(AcceptedBundles(response), n)

\* C21 witness: two plugins of two devices each returned a valid bundle of
\* the same name, and the scrape has yielded its families.
C21_Witness ==
    /\ q_pc = "done"
    /\ Len(response) = 2
    /\ \E i, j \in 1..Len(AcceptedBundles(response)) :
          /\ i < j
          /\ AcceptedBundles(response)[i].metric_name = AcceptedBundles(response)[j].metric_name
          /\ AcceptedBundles(response)[i].device_name # AcceptedBundles(response)[j].device_name

\* C22: once a scrape has completed the merge table is empty, and every
\* series it yielded for a plugin metric comes from a bundle accepted in that
\* same scrape.
C22_TableEmptied ==
    /\ q_pc \in {"idle", "done"} => bundle_table = <<>>
    /\ q_pc = "done" =>
          \A f \in 1..Len(emitted) :
              emitted[f].kind = "COUNTER" =>
                  emitted[f].samples = SamplesNamed(AcceptedBundles(response), emitted[f].name)

\* C22 witness: a scrape that accepted bundles has completed.
C22_Witness ==
    /\ q_pc = "done"
    /\ collected_plugins > 0
    /\ \E f \in 1..Len(emitted) : emitted[f].kind = "COUNTER"
    /\ bundle_table = <<>>

\* C23 as claimed: the collected_devices gauge is the number of distinct
\* device_name values over all the bundles accepted in the scrape, from all
\* plugins.
C23_Original ==
    q_pc = "done" =>
        Gauge("gnmi_collected_devices") =
            Cardinality({AcceptedBundles(response)[i].device_name :
                            i \in 1..Len(AcceptedBundles(response))})

\* C24: the collected_plugins gauge is the number of plugins whose result is
\* a non-empty list with a valid first bundle; a scrape in which no plugin
\* returned something reports 0 plugins and 0 devices, whatever the scrape
\* before reported.
C24_CollectedPlugins ==
    q_pc = "done" =>
        /\ Gauge("gnmi_collected_plugins") =
              Cardinality({i \in 1..Len(response) :
                              response[i] # <<>> /\ is_valid(response[i][1])})
        /\ (\A i \in 1..Len(response) : response[i] = <<>> \/ ~is_valid(response[i][1]))
              => /\ Gauge("gnmi_collected_plugins") = 0
                 /\ Gauge("gnmi_collected_devices") = 0

\* C24 witness: of two registered plugins one returned a valid first bundle
\* and the other did not, and the scrape has completed.
C24_Witness ==
    /\ q_pc = "done"
    /\ Len(response) = 2
    /\ \E i, j \in 1..2 :
          /\ response[i] # <<>> /\ is_valid(response[i][1])
          /\ response[j] # <<>> /\ ~is_valid(response[j][1])
    /\ Gauge("gnmi_collected_plugins") = 1

\* C25: with n distinct metric names accepted from the plugins, the
\* collected_metrics gauge is n + 4: the table holds n + 3 entries when the
\* gauge is computed, and the gauge counts itself.
C25_CollectedMetrics ==
    /\ q_pc = "done" => Gauge("gnmi_collected_metrics") = Cardinality(AcceptedNames) + 4
    /\ q_pc = "export" =>
          bundle_table[table_index(bundle_table, "collected_metrics")].bundle.metrics[1].val
              = (Len(bundle_table) - 2) + 1

\* C25 witness: a scrape with two plugin metric names has reported 6.
C25_Witness ==
    /\ q_pc = "done"
    /\ Cardinality(AcceptedNames) = 2
    /\ Gauge("gnmi_collected_metrics") = 6

\* C26: every family a scrape yields is a COUNTER or a GAUGE, has a
\* non-empty name, and each of its series has as many label values as the
\* family has labels.
C26_FamiliesValid ==
    \A f \in 1..Len(emitted) :
        /\ emitted[f].kind \in {"COUNTER", "GAUGE"}
        /\ emitted[f].name # ""
        /\ \A i \in 1..Len(emitted[f].samples) :
              Len(emitted[f].samples[i].labels) = Len(emitted[f].labels)

\* C26 witness: a family merged from the bundles of two plugins, one of
\* which also returned a bundle that is not valid.
C26_Witness ==
    /\ q_pc = "done"
    /\ \E f \in 1..Len(emitted) :
          /\ emitted[f].kind = "COUNTER"
          /\ \E i, j \in 1..Len(emitted[f].samples) :
                emitted[f].samples[i].labels[3] # emitted[f].samples[j].labels[3]
    /\ \E p \in 1..Len(response) : \E b \in 1..Len(response[p]) : ~is_valid(response[p][b])

\* The messages of list with timestamp t, in the order of list.
WithTimestamp(list, t) == SelectSeq(list, LAMBDA msg : msg.timestamp = t)

\* sorted holds the messages of arrival in non-decreasing order of
\* timestamp, those of one timestamp in their order of arrival.
StableSorted(sorted, arrival) ==
    /\ Len(sorted) = Len(arrival)
    /\ \A i, j \in 1..Len(sorted) : i < j => sorted[i].timestamp <= sorted[j].timestamp
    /\ \A t \in 1..MaxTimestamp : WithTimestamp(sorted, t) = WithTimestamp(arrival, t)

\* C27: a fetch of a plugin in sync leaves in update_list and delete_list the
\* updates and deletes of the drained notifications, sorted by timestamp,
\* those of one timestamp in buffer order and then message order; a fetch of
\* a plugin out of sync leaves both lists empty.
C27_StableSort ==
    [][\A p \in PluginNames :
          /\ (g_quiet' /\ on_sync[p]) =>
                /\ StableSorted(update_list', unpack_updates(buffer[p]))
                /\ StableSorted(delete_list', unpack_deletes(buffer[p]))
          /\ (g_quiet' /\ ~on_sync[p]) =>
                update_list' = <<>> /\ delete_list' = <<>>]_vars

\* C27 witness: update_list holds three updates, the first two of one
\* timestamp and in the order they arrived in although the later
\* notification held them, the last of a greater timestamp.
C27_Witness ==
    /\ g_quiet
    /\ Len(update_list) = 3
    /\ update_list[1].timestamp = update_list[2].timestamp
    /\ update_list[1].path # update_list[2].path
    /\ update_list[2].timestamp < update_list[3].timestamp
    /\ delete_list # <<>>

\* C28 as claimed: a fetch that follows a fetch with no notification and no
\* sync change in between returns the same bundles.
C28_Original ==
    [][(g_quiet /\ g_quiet') => bundle_list' = bundle_list]_vars

\* C29 as claimed: for an xpath of one or more components, each a name
\* followed by any number of [key=value] fragments, xpath_to_gnmi returns one
\* element per component, in order, with the name of the component and all
\* its keys.
C29_Original ==
    (xpath # <<>> /\ gnmi_elems # NoPath) =>
        /\ ~gnmi_elems.raised
        /\ Len(gnmi_elems.elem) = Len(xpath)
        /\ \A i \in 1..Len(xpath) :
              /\ gnmi_elems.elem[i].name = xpath[i].name
              /\ gnmi_elems.elem[i].key = tmp_key(xpath[i], Len(xpath[i].keys))

\* C30: a session whose configuration names no plugin sends no subscription
\* request and receives nothing; once it waits in STREAMING, and unless
\* close() is requested, it leaves the wait only when its watchdog has fired
\* after a full timeout without a response, and it then closes the channel
\* and comes to the next dial attempt.
C30_NoPluginSession ==
    /\ [][(cfg_plugins = {} /\ s_pc = "subscribe" /\ s_pc' # "subscribe") =>
            subscribe_requests(plugin_table) = <<>>]_vars
    /\ [](cfg_plugins = {} => (c_pc # "route" /\ budget = MaxMsgsFair))
    /\ [][(cfg_plugins = {} /\ s_pc = "wait" /\ s_pc' # "wait" /\ ~exit_flag) =>
            (wd_pc = "done" /\ ~wd_exit /\ g_ticks = WdTimeout)]_vars
    /\ (cfg_plugins = {} /\ s_pc = "wait" /\ ~exit_flag)
          ~> (exit_flag \/ (s_pc = "open" /\ channel = "closed" /\ wd_pc = "done"))
    /\ (cfg_plugins = {} /\ s_pc = "open" /\ ~exit_flag) ~> (exit_flag \/ s_pc = "dial")

\* C30 witness: a session without plugins is at its next dial attempt after
\* an episode in STREAMING that its watchdog ended, nothing having been
\* received and no close() requested.
C30_Witness ==
    /\ cfg_plugins = {} /\ s_pc = "dial" /\ c_pc = "done"
    /\ ~exit_flag /\ budget = MaxMsgsFair /\ app_pc = "pause"

\* C37 as claimed: every valid bundle a plugin returned in a scrape is
\* emitted in that scrape: a family of its metric_name holds each of its
\* metrics, whatever the other bundles of the plugin are.
C37_Original ==
    q_pc = "done" =>
        \A p \in 1..Len(response) : \A b \in 1..Len(response[p]) :
            is_valid(response[p][b]) =>
                \E f \in Families(response[p][b].metric_name) :
                    \A m \in 1..Len(response[p][b].metrics) :
                        \E i \in 1..Len(emitted[f].samples) :
                            emitted[f].samples[i] =
                                [labels |-> response[p][b].metrics[m].labelval,
                                 value |-> response[p][b].metrics[m].val]

\* The session has no receive thread: it is dialing or backing off, or it
\* has finished the cleanup of an episode, or it has ended.
NoReceiveThread ==
    /\ s_pc \in {"open", "dial", "subscribe", "backoff", "backoff_check",
                 "start", "check_exit", "done"}
    /\ c_pc \in {"new", "done"}

\* C34 as claimed: whenever the session has no live receive thread, every
\* plugin of the session has on_sync = FALSE.
C34_Original ==
    NoReceiveThread => \A p \in plugin_table : ~on_sync[p]

\* The watchdog of the current episode ran out and called its handler.
WatchdogExpired == wd_pc = "done" /\ ~wd_exit

\* GnmiClient.close() has set the wake event.
CloseCalled == app_pc \in {"close_join", "exited"}

\* C35: the wake event is set only when the watchdog of the current episode
\* has expired or close() has set it, and the session has left its wait, to
\* tear the episode down, only in such a state: neither the watchdog of an
\* earlier episode nor the end of the stream ends an episode.
C35_TeardownCause ==
    (event \/ s_pc = "sync") => (WatchdogExpired \/ CloseCalled)

\* The stream has ended, the session kept waiting, and the watchdog of the
\* episode has then expired and woken it, with no close().
C35_Witness ==
    /\ s_pc = "sync"
    /\ c_pc = "done"
    /\ channel = "open"
    /\ WatchdogExpired
    /\ ~exit_flag

\* Nothing of an episode is left: no open channel, no running watchdog and
\* no running receive thread.
EpisodeClosed ==
    /\ channel \in {"none", "closed"}
    /\ wd_pc \in {"new", "done"}
    /\ c_pc \in {"new", "done"}

\* C31: the session has one channel, one watchdog and one receive thread at
\* a time: when it is about to open the next channel, and when it has ended,
\* the channel of the episode before is closed and its watchdog and its
\* receive thread have terminated, whichever way the episode or the back-off
\* ended.
C31_OneEpisode ==
    s_pc \in {"open", "done"} => EpisodeClosed

\* The session opens the channel of a second episode after the first one,
\* which had a running watchdog and a running receive thread, was closed.
C31_Witness ==
    /\ s_pc = "open"
    /\ channel = "closed"
    /\ wd_pc = "done"
    /\ c_pc = "done"
    /\ ~exit_flag

\* C36 as claimed: the collector mutex is released on every path, so it is
\* held only while a scrape is between its acquire and its release, and no
\* thread waits for it for ever.
C36_Original ==
    mutex = "held" => scr_pc = "gather"

\* The updates of list for the leaf of that name of one interface
\* (container IfaceStatePath) or subinterface (SubifaceStatePath), by
\* position in list.
UpdatesOf(list, container, name, leaf) ==
    {i \in 1..Len(list) :
        /\ re_match(container, list[i].path)
        /\ list[i].path[Len(list[i].path)] = leaf
        /\ list[i].name = name}

\* The values the bundles report for a metric of an interface ("iface") or
\* of a subinterface ("subiface") with that name label.
Reported(bundles, kind, name, metric) ==
    UNION { {bundles[b].metrics[m].val :
                m \in {n \in 1..Len(bundles[b].metrics) :
                         bundles[b].metrics[n].labelval = <<name>>}} :
            b \in {c \in 1..Len(bundles) : bundles[c].metric_name = <<kind, metric>>} }

\* Of the updates at the positions given, the one whose value a render
\* reports: the greatest timestamp, and among those the last to arrive.
Latest(arrival, given) ==
    CHOOSE i \in given :
        \A j \in given :
            \/ arrival[j].timestamp < arrival[i].timestamp
            \/ arrival[j].timestamp = arrival[i].timestamp /\ j <= i

\* The interfaces and subinterfaces the drained updates name with a
\* state/name leaf, as <<kind, container, name>>.
Named(arrival) ==
    {x \in {<<"iface", IfaceStatePath>>, <<"subiface", SubifaceStatePath>>}
           \X {"eth1", "eth2"} :
        UpdatesOf(arrival, x[1][2], x[2], "name") # {}}

\* C32: in the render of a plugin in sync, for every interface and
\* subinterface the drained updates name and every metric leaf they update,
\* the value reported is that of the update with the greatest timestamp, and
\* among those of that timestamp, of the one that arrived last.
C32_LatestWins ==
    [][\A p \in PluginNames :
          (g_quiet' /\ on_sync[p]) =>
              LET arrival == unpack_updates(buffer[p]) IN
              \A x \in Named(arrival) : \A k \in 1..Len(MetricSet) :
                  LET given == UpdatesOf(arrival, x[1][2], x[2], MetricSet[k]) IN
                  given # {} =>
                      Reported(bundle_list', x[1][1], x[2], MetricSet[k])
                          = {py_int(arrival[Latest(arrival, given)].val)}]_vars

\* C32 witness: a render drained two updates of in-octets of eth1 with
\* different values and timestamps, and reports the value of the later one.
C32_Witness ==
    /\ g_quiet
    /\ \E i, j \in UpdatesOf(update_list, IfaceStatePath, "eth1", "in-octets") :
          /\ update_list[i].timestamp < update_list[j].timestamp
          /\ update_list[i].val # update_list[j].val
          /\ Reported(bundle_list, "iface", "eth1", "in-octets")
                = {py_int(update_list[j].val)}

\* C33: a render reports series for exactly the interfaces and
\* subinterfaces that the notifications it drained name with a state/name
\* leaf, whatever the renders before it drained; its tables hold exactly
\* those, and a render that drains nothing returns no bundle.
C33_OnlyDrained ==
    [][\A p \in PluginNames :
          g_quiet' =>
              LET arrival == IF on_sync[p] THEN unpack_updates(buffer[p]) ELSE <<>> IN
              /\ \A kind \in {<<"iface", IfaceStatePath>>, <<"subiface", SubifaceStatePath>>} :
                 \A name \in {"eth1", "eth2"} :
                    (\E k \in 1..Len(MetricSet) :
                        Reported(bundle_list', kind[1], name, MetricSet[k]) # {})
                    <=> <<kind, name>> \in Named(arrival)
              /\ table_keys(tables'.iface_table) =
                    {x[2] : x \in {y \in Named(arrival) : y[1][1] = "iface"}}
              /\ Len(tables'.subiface_table) =
                    Cardinality({y \in Named(arrival) : y[1][1] = "subiface"})
              /\ arrival = <<>> => bundle_list' = <<>>]_vars

\* C33 witness: a render drained the name leaf of eth1 and counters of eth2
\* and of eth1.0, which have no name leaf in the batch: it reports a series
\* for eth1, none for eth2 and none for a subinterface.
C33_Witness ==
    /\ g_quiet
    /\ UpdatesOf(update_list, IfaceStatePath, "eth2", "in-octets") # {}
    /\ UpdatesOf(update_list, SubifaceStatePath, "eth1", "in-octets") # {}
    /\ Reported(bundle_list, "iface", "eth1", "in-octets") # {}
    /\ Reported(bundle_list, "iface", "eth2", "in-octets") = {}
    /\ Reported(bundle_list, "subiface", "eth1", "in-octets") = {}

====
